---- MODULE Spec2Model ----
(***************************************************************************)
(* smon: a terminal dashboard for a Slurm cluster.                         *)
(*                                                                         *)
(* The module models                                                       *)
(*   - the dashboard session of src/src/smon/app.py (SlurmDashboard): key  *)
(*     handling with the two-step cancel, row selection, the real-time     *)
(*     toggle, the list refresh cycles and the per-selection loads.  The   *)
(*     handlers are the same in SpecCancel, SpecSelect and SpecRefresh;    *)
(*     the three differ in what the user and the timers do: keys and the   *)
(*     cursor, selections and the output timer, the list refresh timer     *)
(*     and sorting;                                                        *)
(*   - the cluster client of src/src/smon/slurm_client.py (SlurmClient):   *)
(*     the job listing protocol, the constructor and the job output        *)
(*     reads, under specification SpecClient.                              *)
(*                                                                         *)
(* Scheduling.  The dashboard runs on one asyncio event loop.  The App's   *)
(* message handlers (on_key and the key bindings, on_data_table_...) run   *)
(* one at a time on the App's message pump: while one of them is awaiting, *)
(* the next message waits.  Timer callbacks and workers run as tasks of    *)
(* their own.  run_worker(..., group=g, exclusive=True) cancels the        *)
(* workers of group g that are still running and starts the new one; a     *)
(* cancelled coroutine gets CancelledError at the await it is suspended    *)
(* at, which `except Exception` does not catch.                            *)
(***************************************************************************)
EXTENDS Integers, Sequences, FiniteSets, TLC

None == "None"

\* ------------------------------------------------------------------ bounds
\* The number of successful list refreshes a behaviour may hold (the value
\* of the logical clock behind last_refresh_time).
MaxRefreshTime == 2

\* ------------------------------------------------------------------ inputs
\* A row of the jobs table: its JOBID, STATE, CPUS and MEM cells.
JobRow(j, s, c, m) == [jobid |-> j, state |-> s, cpus |-> c, mem |-> m]
Row(j, s) == JobRow(j, s, "8", "16G")

\* What squeue may list (after Filter.apply_jobs): nothing, one job, two jobs.
JobListings ==
    {<<>>, <<Row("102", "RUNNING")>>,
     <<Row("101", "RUNNING"), Row("102", "COMPLETED")>>,
     <<Row("101", "COMPLETED"), Row("102", "RUNNING")>>}

\* What sinfo may list: rows of (NODE, STATE).
NodeListings == {<<"dgx01", "idle">>, <<"dgx01", "alloc">>}

\* Columns of the jobs table whose header the user selects in this model.
SortColumns == {"JOBID"}

VARIABLES
    current_jobid,            \* app.py:91
    output_refresh_enabled,   \* app.py:92
    user_wants_realtime,      \* app.py:93
    last_refresh_time,        \* app.py:94   (0 is None)
    pending_cancel_jobid,     \* app.py:95
    sort_column,              \* app.py:96
    sort_reverse,             \* app.py:97
    status,                   \* StatusBar.message: <<text, argument>>
    jobs_table,               \* rows of DataTable #jobs_table, in display order
    nodes_table,              \* rows of DataTable #nodes_table
    cursor_row,               \* jobs_table.cursor_coordinate.row (0-based)
    detail_view,              \* #job_detail and #script_viewer: [kind, job]
    output_view,              \* #stdout_viewer and #stderr_viewer: [kind, job]
    handler,                  \* the message handler running on the App's pump
    direct,                   \* the refresh_data() call that handler awaits
    refresh_workers,          \* workers of group "refresh"
    load_workers,             \* workers of group "job_details"
    output_workers,           \* workers of group "output_refresh"
    timers_on,                \* on_mount has set the two intervals
    key_event,                \* the last key press: [key, seq]
    refresh_sec,              \* the list refresh interval, in half seconds
    tools,                    \* what which() finds on PATH
    call,                     \* the SlurmClient operation under way
    commands,                 \* the commands the operation has run, in order
    result                    \* what the operation returned or raised

sessionVars == <<current_jobid, output_refresh_enabled, user_wants_realtime,
                 pending_cancel_jobid, sort_column, sort_reverse>>
displayVars == <<status, jobs_table, nodes_table, cursor_row, detail_view,
                 output_view, last_refresh_time>>
taskVars == <<handler, direct, refresh_workers, load_workers, output_workers,
              timers_on, key_event>>
appVars == <<sessionVars, displayVars, taskVars, refresh_sec>>

clientVars == <<tools, call, commands, result>>

vars == <<appVars, clientVars>>

\* ----------------------------------------------------------- small helpers
Msg(text, arg) == <<text, arg>>
View(kind, job) == [kind |-> kind, job |-> job]

Idle == [pc |-> "idle", jobid |-> None, key |-> None, then |-> None]
NoCycle == [pc |-> "none", jobs |-> "wait", nodes |-> "wait"]
Gathering == [pc |-> "gather", jobs |-> "wait", nodes |-> "wait"]

\* The lexical order of the JOBID cells (_sort_key returns (0, text.lower())
\* for a column that is neither an integer nor a memory column).
JobIdRank(j) == CASE j = "101" -> 1 [] j = "102" -> 2 [] OTHER -> 3

\* _INT_COLUMNS and _MEM_COLUMNS, app.py:26-27.
INT_COLUMNS == {"GPUs", "CPUS", "Nodes"}
MEM_COLUMNS == {"MEM"}

\* The cells of the CPUS column ("8", "16", "", "N/A") and of the MEM column
\* ("16G", "512M", "") in this model, with what int() and
\* _MEM_PATTERN make of them (0 - 1: ValueError, no match), and the lexical
\* order of text.lower() for the cells that are no numbers.
IntOf(text) == CASE text = "8" -> 8 [] text = "16" -> 16 [] OTHER -> 0 - 1
MemOf(text) ==
    CASE text = "16G" -> 16 * 1024 * 1024 [] text = "512M" -> 512 * 1024
      [] OTHER -> 0 - 1
LowerRank(text) == CASE text = "" -> 0 [] text = "N/A" -> 1 [] OTHER -> 2

\* _sort_key, app.py:754-778, on the cell of row in column col.
sort_key(col, row) ==
    CASE col \in INT_COLUMNS ->
            IF IntOf(row.cpus) >= 0 THEN <<0, IntOf(row.cpus)>>
            ELSE <<1, LowerRank(row.cpus)>>
      [] col \in MEM_COLUMNS ->
            IF MemOf(row.mem) >= 0 THEN <<0, MemOf(row.mem)>>
            ELSE <<1, LowerRank(row.mem)>>
      [] OTHER -> <<0, JobIdRank(row.jobid)>>

KeyLess(a, b) == a[1] < b[1] \/ (a[1] = b[1] /\ a[2] < b[2])

RECURSIVE InsertRow(_, _, _, _)
\* Insert row r into the sorted sequence rows, after every row that does not
\* sort after it (a stable sort; reverse=True keeps the order of equal rows).
InsertRow(rows, r, col, reverse) ==
    IF rows = <<>> THEN <<r>>
    ELSE LET h == Head(rows)
             after == IF reverse THEN KeyLess(sort_key(col, h), sort_key(col, r))
                                 ELSE KeyLess(sort_key(col, r), sort_key(col, h))
         IN IF after THEN <<r>> \o rows
            ELSE <<h>> \o InsertRow(Tail(rows), r, col, reverse)

RECURSIVE SortRows(_, _, _)
\* DataTable.sort(column, key=_sort_key, reverse=_sort_reverse).
SortRows(rows, col, reverse) ==
    IF rows = <<>> THEN <<>>
    ELSE InsertRow(SortRows(SubSeq(rows, 1, Len(rows) - 1), col, reverse),
                   rows[Len(rows)], col, reverse)

\* DataTable.sort that takes no notice of reverse.
table_sort_ascending(rows, col, reverse) == SortRows(rows, col, FALSE)

\* table.sort(column, key=self._sort_key, reverse=...), app.py:474 and 806.
table_sort(rows, col, reverse) == SortRows(rows, col, reverse)

\* _apply_current_sort, app.py:468-476.
apply_current_sort(rows) ==
    IF sort_column = None THEN rows ELSE table_sort(rows, sort_column, sort_reverse)

\* _populate_jobs, app.py:478-567: the cursor returns to its saved row when the
\* new table still has that row, and to row 0 otherwise.
populate_cursor(rows) == IF cursor_row < Len(rows) THEN cursor_row ELSE 0

\* _populate_jobs that makes the row its cursor lands on the selection.
selection_follows_cursor(rows, cur) ==
    IF cur < Len(rows) THEN rows[cur + 1].jobid ELSE current_jobid

\* _populate_jobs, app.py:478-567, and the selection: it clears the table,
\* adds the rows and moves the cursor (lines 482, 529, 564-567), none of which
\* selects a row; current_jobid stays what on_data_table_row_selected made it.
populate_selection(rows, cur) == current_jobid

\* List refresh cycles that may still complete.
LiveRefreshWorkers == {w \in refresh_workers : ~w.cancelled}
CyclesInFlight ==
    (IF direct.pc = "none" THEN 0 ELSE 1) + Cardinality(LiveRefreshWorkers)
CanStartCycle == last_refresh_time + CyclesInFlight < MaxRefreshTime

\* WorkerManager.cancel_group, called by run_worker(exclusive=True): every
\* worker of the group is cancelled.
cancel_group(workers) == {[w EXCEPT !.cancelled = TRUE] : w \in workers}

\* Task.cancel() schedules the cancelled task at once: it is resumed, with
\* CancelledError, before the event loop handles any later event.
Cancelling == {w \in refresh_workers \cup load_workers \cup output_workers : w.cancelled}
Quiet == Cancelling = {}

\* ------------------------------------------------------------------- Init
\* refresh_sec in the model: n seconds, and the default of --refresh
\* (main.py:44) and of SlurmDashboard.__init__ (app.py:79).
Sec(n) == 2 * n
DefaultRefresh == Sec(5)

\* SlurmDashboard.__init__, app.py:77-110, for the interval refresh.
SlurmDashboard_init(refresh) ==
    /\ refresh_sec = refresh
    /\ current_jobid = None
    /\ output_refresh_enabled = FALSE
    /\ user_wants_realtime = TRUE
    /\ last_refresh_time = 0
    /\ pending_cancel_jobid = None
    /\ sort_column = None
    /\ sort_reverse = FALSE
    /\ status = Msg("Ready", None)
    /\ jobs_table = <<>>
    /\ nodes_table = <<>>
    /\ cursor_row = 0
    /\ detail_view = View("none", None)
    /\ output_view = View("none", None)
    /\ handler = [Idle EXCEPT !.pc = "init"]
    /\ direct = NoCycle
    /\ refresh_workers = {}
    /\ load_workers = {}
    /\ output_workers = {}
    /\ timers_on = FALSE
    /\ key_event = [key |-> None, seq |-> 0]

AppInit == SlurmDashboard_init(DefaultRefresh)

\* ------------------------------------------------- list refresh: refresh_data
\* refresh_data with an error branch that empties the tables.
refresh_data_clears_on_error(c, jobs, nodes) ==
    IF c.jobs = "ok" /\ c.nodes = "ok"
    THEN [jobs_table |-> apply_current_sort(jobs),
          nodes_table |-> nodes,
          cursor_row |-> populate_cursor(jobs),
          last_refresh_time |-> last_refresh_time + 1,
          status |-> Msg("Updated", None)]
    ELSE [jobs_table |-> <<>>,
          nodes_table |-> <<>>,
          cursor_row |-> 0,
          last_refresh_time |-> last_refresh_time,
          status |-> Msg("Error", None)]

\* refresh_data that shows each listing as it comes (gather with
\* return_exceptions) and does not sort again.
refresh_data_swaps_each(c, jobs, nodes) ==
    [jobs_table |-> IF c.jobs = "ok" THEN jobs ELSE jobs_table,
     nodes_table |-> IF c.nodes = "ok" THEN nodes ELSE nodes_table,
     cursor_row |-> IF c.jobs = "ok" THEN populate_cursor(jobs) ELSE cursor_row,
     last_refresh_time |-> IF c.jobs = "ok" /\ c.nodes = "ok"
                           THEN last_refresh_time + 1 ELSE last_refresh_time,
     status |-> IF c.jobs = "ok" /\ c.nodes = "ok"
                THEN Msg("Updated", None) ELSE Msg("Error", None)]

\* refresh_data, app.py:426-439, from the return of asyncio.gather on: what a
\* cycle c leaves on the display when the job listing returned jobs and the
\* node listing returned nodes.  gather raises as soon as one listing raises,
\* so the tables are written only when both listings have returned.
refresh_data(c, jobs, nodes) ==
    IF c.jobs = "ok" /\ c.nodes = "ok"
    THEN [jobs_table |-> apply_current_sort(jobs),
          nodes_table |-> nodes,
          cursor_row |-> populate_cursor(jobs),
          last_refresh_time |-> last_refresh_time + 1,
          status |-> Msg("Updated", None)]
    ELSE [jobs_table |-> jobs_table,
          nodes_table |-> nodes_table,
          cursor_row |-> cursor_row,
          last_refresh_time |-> last_refresh_time,
          status |-> Msg("Error", None)]

\* The gather of a cycle is over: both listings returned, or one raised.
GatherOver(c) ==
    c.pc = "gather" /\ (c.jobs = "fail" \/ c.nodes = "fail"
                        \/ (c.jobs = "ok" /\ c.nodes = "ok"))

\* -------------------------------------------------------- key bindings
\* action_cancel_job, app.py:363-379, on a jobs table tbl with the cursor on
\* row cur: the first step of the two-step cancel.
action_cancel_job(tbl, cur, pend, st) ==
    IF Len(tbl) = 0
    THEN [pending |-> pend, status |-> Msg("No job selected", None)]
    ELSE [pending |-> tbl[cur + 1].jobid,
          status |-> Msg("Cancel job? Press 'c' again to confirm", tbl[cur + 1].jobid)]

\* action_increase_refresh and action_decrease_refresh, app.py:400-410: the
\* new interval (_update_refresh_timer sets the timer anew with it).
action_increase_refresh(sec) == IF sec + Sec(1) < Sec(60) THEN sec + Sec(1) ELSE Sec(60)
action_decrease_refresh(sec) == IF sec - Sec(1) > Sec(1) THEN sec - Sec(1) ELSE Sec(1)

\* action_toggle_realtime that leaves the effective flag alone when real-time
\* is turned off.
action_toggle_realtime_keeps_flag ==
    IF ~user_wants_realtime
    THEN [wants |-> TRUE, enabled |-> current_jobid # None,
          status |-> Msg("Real-time refresh: ON", None)]
    ELSE [wants |-> FALSE, enabled |-> output_refresh_enabled,
          status |-> Msg("Real-time refresh: OFF", None)]

\* action_toggle_realtime, app.py:335-343.
action_toggle_realtime ==
    IF ~user_wants_realtime
    THEN [wants |-> TRUE, enabled |-> current_jobid # None,
          status |-> Msg("Real-time refresh: ON", None)]
    ELSE [wants |-> FALSE, enabled |-> FALSE,
          status |-> Msg("Real-time refresh: OFF", None)]

\* BINDINGS, app.py:35-48: the action bound to key k, run on the session as
\* on_key left it (pending confirmation pend, status st) and on the jobs table
\* tbl with the cursor on row cur.  refresh says that the action is
\* action_refresh, which awaits refresh_data().
binding(k, pend, st, tbl, cur) ==
    CASE k = "c" ->
            LET a == action_cancel_job(tbl, cur, pend, st)
            IN [pending |-> a.pending, status |-> a.status,
                wants |-> user_wants_realtime, enabled |-> output_refresh_enabled,
                refresh |-> FALSE, interval |-> refresh_sec]
      [] k = "t" ->
            LET t == action_toggle_realtime
            IN [pending |-> pend, status |-> t.status,
                wants |-> t.wants, enabled |-> t.enabled, refresh |-> FALSE,
                interval |-> refresh_sec]
      [] k = "r" ->
            [pending |-> pend, status |-> st,
             wants |-> user_wants_realtime, enabled |-> output_refresh_enabled,
             refresh |-> TRUE, interval |-> refresh_sec]
      [] k = "plus" ->
            [pending |-> pend,
             status |-> Msg("Refresh interval", action_increase_refresh(refresh_sec)),
             wants |-> user_wants_realtime, enabled |-> output_refresh_enabled,
             refresh |-> FALSE, interval |-> action_increase_refresh(refresh_sec)]
      [] k = "minus" ->
            [pending |-> pend,
             status |-> Msg("Refresh interval", action_decrease_refresh(refresh_sec)),
             wants |-> user_wants_realtime, enabled |-> output_refresh_enabled,
             refresh |-> FALSE, interval |-> action_decrease_refresh(refresh_sec)]
      [] OTHER ->
            [pending |-> pend, status |-> st,
             wants |-> user_wants_realtime, enabled |-> output_refresh_enabled,
             refresh |-> FALSE, interval |-> refresh_sec]

\* on_key that confirms for the job under the cursor at the confirming press.
on_key_confirms_cursor_row(k) ==
    IF pending_cancel_jobid # None
    THEN IF k = "c"
         THEN [confirm |-> IF Len(jobs_table) = 0 THEN pending_cancel_jobid
                           ELSE jobs_table[cursor_row + 1].jobid,
               pending |-> None, status |-> status]
         ELSE [confirm |-> None, pending |-> None,
               status |-> Msg("Cancellation aborted", None)]
    ELSE [confirm |-> None, pending |-> pending_cancel_jobid, status |-> status]

\* on_key without the test of line 167: whatever key follows the arming press
\* confirms.
on_key_any_key_confirms(k) ==
    IF pending_cancel_jobid # None
    THEN [confirm |-> pending_cancel_jobid, pending |-> None, status |-> status]
    ELSE [confirm |-> None, pending |-> pending_cancel_jobid, status |-> status]

\* on_key, app.py:164-181, up to its first await: what a key press k does to the
\* pending confirmation.  confirm names the job id handed to cancel_job.
on_key(k) ==
    IF pending_cancel_jobid # None
    THEN IF k = "c"
         THEN [confirm |-> pending_cancel_jobid, pending |-> None, status |-> status]
         ELSE [confirm |-> None, pending |-> None,
               status |-> Msg("Cancellation aborted", None)]
    ELSE [confirm |-> None, pending |-> pending_cancel_jobid, status |-> status]

\* The handler's end: the binding b has run; action_refresh starts a cycle.
RunBinding(b) ==
    /\ pending_cancel_jobid' = b.pending
    /\ refresh_sec' = b.interval
    /\ user_wants_realtime' = b.wants
    /\ output_refresh_enabled' = b.enabled
    /\ IF b.refresh
       THEN /\ CanStartCycle
            /\ status' = Msg("Refreshing", None)
            /\ direct' = Gathering
            /\ handler' = [Idle EXCEPT !.pc = "refresh"]
       ELSE /\ status' = b.status
            /\ direct' = NoCycle
            /\ handler' = Idle

\* A key press reaches the App.  The handlers of a Key event run in the order of
\* the class hierarchy: SlurmDashboard.on_key first, then the App's own key
\* handler, which runs the action bound to the key (event.stop() ends the
\* bubbling of the event, not the handlers of the App itself).
Key(k) ==
    /\ UNCHANGED clientVars
    /\ Quiet
    /\ handler.pc = "idle"
    /\ key_event' = [key |-> k, seq |-> 1 - key_event.seq]
    /\ LET o == on_key(k)
       IN IF o.confirm # None
          THEN \* await self.client.cancel_job(jobid)
               /\ pending_cancel_jobid' = o.pending
               /\ handler' = [pc |-> "cancel_job", jobid |-> o.confirm,
                              key |-> k, then |-> "binding"]
               /\ UNCHANGED <<status, direct, user_wants_realtime,
                              output_refresh_enabled, refresh_sec>>
          ELSE RunBinding(binding(k, o.pending, o.status, jobs_table, cursor_row))
    /\ UNCHANGED <<current_jobid, sort_column, sort_reverse, jobs_table,
                   nodes_table, cursor_row, detail_view, output_view,
                   last_refresh_time, refresh_workers, load_workers,
                   output_workers, timers_on>>

\* on_key, app.py:171-176: cancel_job returned (success, msg).  On success the
\* handler goes on to await refresh_data(); on failure it ends, and the binding
\* of the key runs.
CancelJobDone(success) ==
    /\ UNCHANGED clientVars
    /\ Quiet
    /\ handler.pc = "cancel_job"
    /\ IF success
       THEN /\ CanStartCycle
            /\ status' = Msg("Refreshing", None)
            /\ direct' = Gathering
            /\ handler' = [handler EXCEPT !.pc = "refresh"]
            /\ UNCHANGED <<pending_cancel_jobid, user_wants_realtime,
                           output_refresh_enabled, refresh_sec>>
       ELSE RunBinding(binding(handler.key, pending_cancel_jobid,
                               Msg("Failed to cancel job", handler.jobid),
                               jobs_table, cursor_row))
    /\ UNCHANGED <<current_jobid, sort_column, sort_reverse, jobs_table,
                   nodes_table, cursor_row, detail_view, output_view,
                   last_refresh_time, refresh_workers, load_workers,
                   output_workers, timers_on, key_event>>

\* on_mount, app.py:183-198: the first refresh_data(); the timers are set when
\* it is over.
on_mount ==
    /\ UNCHANGED <<clientVars, refresh_sec>>
    /\ Quiet
    /\ handler.pc = "init"
    /\ status' = Msg("Refreshing", None)
    /\ direct' = Gathering
    /\ handler' = [Idle EXCEPT !.pc = "refresh", !.then = "mount"]
    /\ UNCHANGED <<sessionVars, jobs_table, nodes_table, cursor_row, detail_view,
                   output_view, last_refresh_time, refresh_workers, load_workers,
                   output_workers, timers_on, key_event>>

\* ------------------------------------------------- the awaited refresh_data()
\* get_jobs / get_nodes of the cycle the handler awaits returned (ok) or raised
\* (fail); a listing that ends after the gather has raised changes nothing.
DirectListingDone(listing, outcome) ==
    /\ UNCHANGED <<clientVars, refresh_sec>>
    /\ Quiet
    /\ direct.pc = "gather"
    /\ ~GatherOver(direct)
    /\ direct[listing] = "wait"
    /\ direct' = [direct EXCEPT ![listing] = outcome]
    /\ UNCHANGED <<sessionVars, displayVars, handler, refresh_workers,
                   load_workers, output_workers, timers_on, key_event>>

\* The handler resumes from refresh_data(): the display is updated, then what
\* follows the await runs: on_mount sets the timers, on_key ends and the
\* binding of its key runs, action_refresh ends.
DirectRefreshDone(jobs, nodes) ==
    /\ UNCHANGED clientVars
    /\ Quiet
    /\ handler.pc = "refresh"
    /\ GatherOver(direct)
    /\ LET d == refresh_data(direct, jobs, nodes)
       IN /\ jobs_table' = d.jobs_table
          /\ nodes_table' = d.nodes_table
          /\ cursor_row' = d.cursor_row
          /\ last_refresh_time' = d.last_refresh_time
          /\ current_jobid' = populate_selection(d.jobs_table, d.cursor_row)
          /\ IF handler.then = "binding"
             THEN RunBinding(binding(handler.key, pending_cancel_jobid, d.status,
                                     d.jobs_table, d.cursor_row))
             ELSE /\ status' = d.status
                  /\ direct' = NoCycle
                  /\ handler' = Idle
                  /\ UNCHANGED <<pending_cancel_jobid, user_wants_realtime,
                                 output_refresh_enabled, refresh_sec>>
    /\ timers_on' = (timers_on \/ handler.then = "mount")
    /\ UNCHANGED <<sort_column, sort_reverse, detail_view,
                   output_view, refresh_workers, load_workers, output_workers,
                   key_event>>

\* ------------------------------------------- the periodic list refresh worker
\* _schedule_refresh, app.py:227-228: the interval timer fires.
ScheduleRefresh ==
    /\ UNCHANGED <<clientVars, refresh_sec>>
    /\ Quiet
    /\ timers_on
    /\ CanStartCycle \/ LiveRefreshWorkers # {}
    /\ refresh_workers' = cancel_group(refresh_workers)
                            \cup {[pc |-> "new", jobs |-> "wait", nodes |-> "wait",
                                   cancelled |-> FALSE]}
    /\ UNCHANGED <<sessionVars, displayVars, handler, direct, load_workers,
                   output_workers, timers_on, key_event>>

\* The worker's task runs refresh_data() up to its gather; a worker cancelled
\* before it ran never runs.
RefreshWorkerStart(w) ==
    /\ UNCHANGED <<clientVars, refresh_sec>>
    /\ w \in refresh_workers
    /\ w.cancelled \/ Quiet
    /\ w.pc = "new"
    /\ IF w.cancelled
       THEN /\ refresh_workers' = refresh_workers \ {w}
            /\ UNCHANGED status
       ELSE /\ refresh_workers' = (refresh_workers \ {w})
                                    \cup {[w EXCEPT !.pc = "gather"]}
            /\ status' = Msg("Refreshing", None)
    /\ UNCHANGED <<sessionVars, jobs_table, nodes_table, cursor_row, detail_view,
                   output_view, last_refresh_time, handler, direct, load_workers,
                   output_workers, timers_on, key_event>>

RefreshWorkerListingDone(w, listing, outcome) ==
    /\ UNCHANGED <<clientVars, refresh_sec>>
    /\ w \in refresh_workers
    /\ w.pc = "gather"
    /\ Quiet
    /\ ~GatherOver(w)
    /\ w[listing] = "wait"
    /\ refresh_workers' = (refresh_workers \ {w})
                            \cup {[w EXCEPT ![listing] = outcome]}
    /\ UNCHANGED <<sessionVars, displayVars, handler, direct, load_workers,
                   output_workers, timers_on, key_event>>

\* What resuming a refresh worker at its gather does: a cancelled worker gets
\* CancelledError there, which refresh_data's `except Exception` lets through.
refresh_worker_resumes(w) == IF w.cancelled THEN "cancelled" ELSE "run"

RefreshWorkerDone(w, jobs, nodes) ==
    /\ UNCHANGED <<clientVars, refresh_sec>>
    /\ w \in refresh_workers
    /\ w.cancelled \/ Quiet
    /\ w.pc = "gather"
    /\ refresh_workers' = refresh_workers \ {w}
    /\ IF refresh_worker_resumes(w) = "cancelled"
       THEN UNCHANGED <<displayVars, current_jobid>>
       ELSE /\ GatherOver(w)
            /\ LET d == refresh_data(w, jobs, nodes)
               IN /\ jobs_table' = d.jobs_table
                  /\ nodes_table' = d.nodes_table
                  /\ cursor_row' = d.cursor_row
                  /\ last_refresh_time' = d.last_refresh_time
                  /\ status' = d.status
                  /\ current_jobid' = populate_selection(d.jobs_table, d.cursor_row)
            /\ UNCHANGED <<detail_view, output_view>>
    /\ UNCHANGED <<output_refresh_enabled, user_wants_realtime,
                   pending_cancel_jobid, sort_column, sort_reverse, handler,
                   direct, load_workers, output_workers, timers_on, key_event>>

\* --------------------------------------------------------- jobs table events
\* on_data_table_row_selected, app.py:681-712: row r of the jobs table is
\* selected (the cursor is on it).  Real-time polling becomes effective when
\* the user wants it and the row's state is RUNNING or PENDING.  The load runs
\* as the exclusive worker of group "job_details".
can_refresh(row) == row.state \in {"RUNNING", "PENDING"}

on_data_table_row_selected(r) ==
    /\ UNCHANGED <<clientVars, refresh_sec>>
    /\ Quiet
    /\ handler.pc = "idle"
    /\ r \in 1..Len(jobs_table)
    /\ LET row == jobs_table[r]
       IN /\ current_jobid' = row.jobid
          /\ output_refresh_enabled' = (user_wants_realtime /\ can_refresh(row))
          /\ detail_view' = View("loading", row.jobid)
          /\ output_view' = View("loading", row.jobid)
          /\ load_workers' = cancel_group(load_workers)
                               \cup {[pc |-> "new", jobid |-> row.jobid,
                                      can_refresh |-> can_refresh(row),
                                      cancelled |-> FALSE]}
    /\ cursor_row' = r - 1
    /\ UNCHANGED <<user_wants_realtime, pending_cancel_jobid, sort_column,
                   sort_reverse, status, jobs_table, nodes_table,
                   last_refresh_time, handler, direct, refresh_workers,
                   output_workers, timers_on, key_event>>

\* The cursor is moved to row r with the mouse (no key press, no selection).
CursorMoved(r) ==
    /\ UNCHANGED <<clientVars, refresh_sec>>
    /\ Quiet
    /\ handler.pc = "idle"
    /\ r \in 1..Len(jobs_table)
    /\ cursor_row # r - 1
    /\ cursor_row' = r - 1
    /\ UNCHANGED <<sessionVars, status, jobs_table, nodes_table, detail_view,
                   output_view, last_refresh_time, taskVars>>

\* The direction of a newly selected column, always ascending.
first_direction_ascending(col) == FALSE

\* on_data_table_header_selected, app.py:797-801: the direction (reverse) of a
\* column selected while another one, or none, is the sort column.
first_direction(col) == col \in INT_COLUMNS \/ col \in MEM_COLUMNS

\* on_data_table_header_selected, app.py:780-811: the header of column col of
\* the jobs table is selected.
on_data_table_header_selected(col) ==
    /\ UNCHANGED <<clientVars, refresh_sec>>
    /\ Quiet
    /\ handler.pc = "idle"
    /\ LET rev == IF sort_column = col THEN ~sort_reverse ELSE first_direction(col)
       IN /\ sort_column' = col
          /\ sort_reverse' = rev
          /\ jobs_table' = table_sort(jobs_table, col, rev)
          /\ status' = Msg("Sorted by", col)
    /\ UNCHANGED <<current_jobid, output_refresh_enabled, user_wants_realtime,
                   pending_cancel_jobid, nodes_table, cursor_row, detail_view,
                   output_view, last_refresh_time, taskVars>>

\* ------------------------------------------------ the selection-triggered load
\* A load that applies whatever it is resumed with.
load_checkpoint_always_applies(w) == "apply"

\* A load that goes on after its worker was cancelled.
load_checkpoint_ignores_cancel(w) ==
    IF current_jobid # w.jobid THEN "stale" ELSE "apply"

\* _load_job_details, app.py:714-741, resumed from an await: a cancelled worker
\* gets CancelledError there (no Exception: line 739 lets it through); else the
\* results are applied only when the selection is still the job of the load
\* (lines 724 and 734), and an error is reported only then (line 740).
load_checkpoint(w) ==
    IF w.cancelled THEN "cancelled"
    ELSE IF current_jobid # w.jobid THEN "stale" ELSE "apply"

LoadStart(w) ==
    /\ UNCHANGED <<clientVars, refresh_sec>>
    /\ w \in load_workers
    /\ w.cancelled \/ Quiet
    /\ w.pc = "new"
    /\ load_workers' = IF w.cancelled THEN load_workers \ {w}
                       ELSE (load_workers \ {w}) \cup {[w EXCEPT !.pc = "gather"]}
    /\ UNCHANGED <<sessionVars, displayVars, handler, direct, refresh_workers,
                   output_workers, timers_on, key_event>>

\* The gather of get_job_detail and get_job_script is over (lines 718-729).
LoadDetailDone(w, outcome) ==
    /\ UNCHANGED <<clientVars, refresh_sec>>
    /\ w \in load_workers
    /\ w.cancelled \/ Quiet
    /\ w.pc = "gather"
    /\ LET cp == load_checkpoint(w)
       IN IF cp = "apply" /\ outcome = "ok"
          THEN /\ detail_view' = View("detail", w.jobid)
               /\ load_workers' = (load_workers \ {w})
                                    \cup {[w EXCEPT !.pc = "output"]}
               /\ UNCHANGED status
          ELSE /\ load_workers' = load_workers \ {w}
               /\ status' = IF cp = "apply" THEN Msg("Load error", w.jobid)
                            ELSE status
               /\ UNCHANGED detail_view
    /\ UNCHANGED <<sessionVars, jobs_table, nodes_table, cursor_row, output_view,
                   last_refresh_time, handler, direct, refresh_workers,
                   output_workers, timers_on, key_event>>

\* get_job_output(jobid, detail=detail) is over (lines 732-737), then
\* _update_output_display, app.py:743-752.
LoadOutputDone(w, outcome) ==
    /\ UNCHANGED <<clientVars, refresh_sec>>
    /\ w \in load_workers
    /\ w.cancelled \/ Quiet
    /\ w.pc = "output"
    /\ load_workers' = load_workers \ {w}
    /\ LET cp == load_checkpoint(w)
       IN IF cp = "apply" /\ outcome = "ok"
          THEN /\ output_view' = View("output", w.jobid)
               /\ status' = IF user_wants_realtime /\ w.can_refresh
                            THEN Msg("Job selected | Real-time ON", w.jobid)
                            ELSE Msg("Job selected | Press 't' to enable real-time",
                                     w.jobid)
          ELSE /\ status' = IF cp = "apply" THEN Msg("Load error", w.jobid)
                            ELSE status
               /\ UNCHANGED output_view
    /\ UNCHANGED <<sessionVars, jobs_table, nodes_table, cursor_row, detail_view,
                   last_refresh_time, handler, direct, refresh_workers,
                   output_workers, timers_on, key_event>>

\* ------------------------------------------------- the periodic output refresh
\* _schedule_output_refresh, app.py:236-244: the 5 s timer fires; a worker is
\* started only while real-time polling is effective and a job is selected.
ScheduleOutputRefresh ==
    /\ UNCHANGED <<clientVars, refresh_sec>>
    /\ Quiet
    /\ timers_on
    /\ output_refresh_enabled /\ current_jobid # None
    /\ output_workers' = cancel_group(output_workers)
                           \cup {[pc |-> "new", jobid |-> None, cancelled |-> FALSE]}
    /\ UNCHANGED <<sessionVars, displayVars, handler, direct, refresh_workers,
                   load_workers, timers_on, key_event>>

\* _refresh_current_output, app.py:246-251: the job read is the selection at
\* the moment the worker's task runs.
OutputWorkerStart(w) ==
    /\ UNCHANGED <<clientVars, refresh_sec>>
    /\ w \in output_workers
    /\ w.cancelled \/ Quiet
    /\ w.pc = "new"
    /\ output_workers' =
           IF w.cancelled \/ current_jobid = None THEN output_workers \ {w}
           ELSE (output_workers \ {w})
                  \cup {[w EXCEPT !.pc = "output", !.jobid = current_jobid]}
    /\ UNCHANGED <<sessionVars, displayVars, handler, direct, refresh_workers,
                   load_workers, timers_on, key_event>>

\* _refresh_current_output, app.py:251-255: get_job_output returned or raised;
\* an error is dropped.
OutputWorkerDone(w, outcome) ==
    /\ UNCHANGED <<clientVars, refresh_sec>>
    /\ w \in output_workers
    /\ w.cancelled \/ Quiet
    /\ w.pc = "output"
    /\ output_workers' = output_workers \ {w}
    /\ output_view' = IF ~w.cancelled /\ outcome = "ok"
                      THEN View("output", w.jobid) ELSE output_view
    /\ UNCHANGED <<sessionVars, status, jobs_table, nodes_table, cursor_row,
                   detail_view, last_refresh_time, handler, direct,
                   refresh_workers, load_workers, timers_on, key_event>>

\* ======================================================= the cluster client
\* Texts are sequences of pieces: "" is <<>>; a piece is a character where the
\* code looks at characters (strip), and a whole phrase elsewhere.
Empty == <<>>
Whitespace == {" ", "\n"}

RECURSIVE lstrip(_)
lstrip(t) == IF t # <<>> /\ Head(t) \in Whitespace THEN lstrip(Tail(t)) ELSE t

RECURSIVE rstrip(_)
rstrip(t) ==
    IF t # <<>> /\ t[Len(t)] \in Whitespace THEN rstrip(SubSeq(t, 1, Len(t) - 1))
    ELSE t

\* str.strip()
strip(t) == rstrip(lstrip(t))

NoCall == [op |-> "none", pc |-> "done"]
NoResult == [kind |-> "none"]
Return(v) == [kind |-> "return", value |-> v]
Raise(exc, text) == [kind |-> "raise", exc |-> exc, text |-> text]

\* The tools that may be on PATH.
ToolNames == {"squeue", "sinfo", "scontrol"}
ToolSets == {[squeue |-> TRUE, sinfo |-> TRUE, scontrol |-> TRUE, scancel |-> TRUE],
             [squeue |-> FALSE, sinfo |-> FALSE, scontrol |-> FALSE, scancel |-> FALSE],
             [squeue |-> TRUE, sinfo |-> TRUE, scontrol |-> FALSE, scancel |-> TRUE]}

ClientInit ==
    /\ tools \in ToolSets
    /\ call = NoCall
    /\ commands = <<>>
    /\ result = NoResult

\* The client of a dashboard session: its operations are summed up by the
\* outcomes of the session's awaits.
ClientIdle ==
    /\ tools = [squeue |-> TRUE, sinfo |-> TRUE, scontrol |-> TRUE, scancel |-> TRUE]
    /\ call = NoCall
    /\ commands = <<>>
    /\ result = NoResult

\* ------------------------------------------------------ SlurmClient.__init__
\* The command paths handed to the constructor: SlurmCommands() (the bare
\* names) or paths that name no file.
CmdSets == {"default", "nonexistent"}

\* which(getattr(self.cmds, name)), utils.py:10-16.
which(cmds, name) == cmds = "default" /\ tools[name]

\* The keyword arguments of a call SlurmClient(...): mock_mode absent, True or
\* False.
MockKeywords == {"absent", "True", "False"}

\* SlurmClient.__init__, slurm_client.py:49-54.  Its only parameter is cmds: a
\* call with the keyword mock_mode is a TypeError.  It keeps the paths of the
\* tools it finds and raises nothing when it finds none.
SlurmClient_init(cmds, mock_mode) ==
    IF mock_mode # "absent"
    THEN Raise("TypeError", <<"unexpected keyword argument 'mock_mode'">>)
    ELSE Return([n \in ToolNames |-> IF which(cmds, n) THEN "found" ELSE "as given"])

Construct(cmds, mock_mode) ==
    /\ call.pc = "done"
    /\ call' = [op |-> "init", pc |-> "done", cmds |-> cmds, mock_mode |-> mock_mode]
    /\ commands' = <<>>
    /\ result' = SlurmClient_init(cmds, mock_mode)
    /\ UNCHANGED <<tools, appVars>>

\* ---------------------------------------------------------------- get_jobs
cols == <<"JOBID", "PARTITION", "NAME", "USERNAME", "STATE", "TRES", "TimeUsed",
          "TimeLimit", "ReqNodes", "NodeList", "Reason">>
basic_cols == <<"JOBID", "USER", "STATE", "TIME", "NODES", "PARTITION", "NAME",
                "NODELIST(REASON)", "CPUS", "MEM">>

Primary == <<"squeue -h -O", "--states=all">>
Fallback == <<"squeue -h -o", "--states=all">>

\* run_cmd, utils.py:19-41: the exit code of the command, 124 for a timeout.
ExitCodes == {0, 1, 124}
ErrTexts == {<<>>, <<" ", "\n">>, <<"e">>, <<" ", "f", "\n">>}

\* An output line is the sequence of its fields; <<>> is a blank line.
PrimaryLine == <<"7", "gpu", "train", "alice", "RUNNING", "gres/gpu:h100:4",
                 "0:10", "1:00", "1", "dgx01", "None">>
PrimaryShortLine == <<"8", "cpu", "prep", "bob", "PENDING", "N/A", "0:00", "2:00", "1">>
BasicLine == <<"7", "alice", "RUNNING", "0:10", "1", "gpu", "train", "dgx01", "8", "16G">>
BasicShortLine == <<"8", "bob", "PENDING", "0:00", "1", "cpu", "prep">>

PrimaryOutputs == {<<>>, <<PrimaryLine, <<>>, PrimaryShortLine>>}
FallbackOutputs == {<<>>, <<BasicShortLine, BasicLine>>}

\* _parse_squeue_output_line, slurm_client.py:229-251, on the fields of a
\* line: eight fixed-width fields and up to three more, filled up to eleven.
parse_squeue_output_line(line) ==
    [i \in 1..11 |-> IF i <= Len(line) THEN line[i] ELSE ""]

\* _parse_gpu_count and _parse_gpu_type, slurm_client.py:253-279, on the TRES
\* fields of the lines above.
parse_gpu_count(tres) == IF tres = "gres/gpu:h100:4" THEN "4" ELSE "0"
parse_gpu_type(tres) == IF tres = "gres/gpu:h100:4" THEN "H100" ELSE ""

\* get_jobs whose loop ends at the first line with too few fields.
RECURSIVE parse_jobs_until_bad_row(_, _)
parse_jobs_until_bad_row(out, cs) ==
    IF out = <<>> THEN <<>>
    ELSE LET line == Head(out)
             primary == \E i \in 1..Len(cs) : cs[i] = "TRES"
             parts == IF primary THEN parse_squeue_output_line(line) ELSE line
             tres == parts[6]
             row == [keys |-> cs,
                     cells |-> [i \in 1..Len(cs) |->
                                    IF i <= Len(parts) THEN parts[i] ELSE ""],
                     GPU_COUNT |-> IF primary THEN parse_gpu_count(tres) ELSE "",
                     GPU_TYPE |-> IF primary THEN parse_gpu_type(tres) ELSE ""]
         IN IF line = <<>> THEN parse_jobs_until_bad_row(Tail(out), cs)
            ELSE IF Len(parts) < Len(cs) - 2 THEN <<>>
            ELSE <<row>> \o parse_jobs_until_bad_row(Tail(out), cs)

\* get_jobs, slurm_client.py:96-119: the records of output out under the column
\* list cs.
RECURSIVE parse_jobs(_, _)
parse_jobs(out, cs) ==
    IF out = <<>> THEN <<>>
    ELSE LET line == Head(out)
             primary == \E i \in 1..Len(cs) : cs[i] = "TRES"
             parts == IF primary THEN parse_squeue_output_line(line) ELSE line
             tres == parts[6]
             row == [keys |-> cs,
                     cells |-> [i \in 1..Len(cs) |->
                                    IF i <= Len(parts) THEN parts[i] ELSE ""],
                     GPU_COUNT |-> IF primary THEN parse_gpu_count(tres) ELSE "",
                     GPU_TYPE |-> IF primary THEN parse_gpu_type(tres) ELSE ""]
         IN IF line = <<>> \/ Len(parts) < Len(cs) - 2
            THEN parse_jobs(Tail(out), cs)
            ELSE <<row>> \o parse_jobs(Tail(out), cs)

\* _mock_jobs, slurm_client.py:329-375: three sample records.
mock_jobs == <<"12345", "12346", "12347">>

\* get_jobs without the second command when the first one timed out.
needs_fallback_but_for_timeout(rc) == rc # 0 /\ rc # 124

\* get_jobs, slurm_client.py:76-77: the test that sends it to the basic format.
needs_fallback(rc) == rc # 0

\* get_jobs, slurm_client.py:91-93: both commands failed.
squeue_failed(err) ==
    Raise("RuntimeError",
          <<"squeue failed: ">> \o (IF strip(err) # <<>> THEN strip(err)
                                    ELSE <<"unknown error">>))

\* get_jobs up to its first await (lines 58-75).
GetJobsStart ==
    /\ call.pc = "done"
    /\ IF ~tools.squeue
       THEN /\ call' = [op |-> "get_jobs", pc |-> "done"]
            /\ commands' = <<>>
            /\ result' = Return(mock_jobs)
       ELSE /\ call' = [op |-> "get_jobs", pc |-> "primary"]
            /\ commands' = <<Primary>>
            /\ result' = NoResult
    /\ UNCHANGED <<tools, appVars>>

\* The primary command is over (lines 75-77, 96-119).
GetJobsPrimaryDone(rc, out, err) ==
    /\ call.op = "get_jobs" /\ call.pc = "primary"
    /\ IF needs_fallback(rc)
       THEN /\ call' = [op |-> "get_jobs", pc |-> "fallback", rc1 |-> rc, err1 |-> err]
            /\ commands' = Append(commands, Fallback)
            /\ UNCHANGED result
       ELSE /\ call' = [op |-> "get_jobs", pc |-> "done", rc1 |-> rc, err1 |-> err,
                        out |-> out]
            /\ result' = Return(parse_jobs(out, cols))
            /\ UNCHANGED commands
    /\ UNCHANGED <<tools, appVars>>

\* The fallback command is over (lines 90-119).
GetJobsFallbackDone(rc, out, err) ==
    /\ call.op = "get_jobs" /\ call.pc = "fallback"
    /\ call' = [op |-> "get_jobs", pc |-> "done", rc1 |-> call.rc1,
                err1 |-> call.err1, rc2 |-> rc, err2 |-> err, out |-> out]
    /\ result' = IF rc # 0 THEN squeue_failed(err)
                 ELSE Return(parse_jobs(out, basic_cols))
    /\ UNCHANGED <<commands, tools, appVars>>

\* ------------------------------------------------------------ get_job_output
\* The text of `scontrol show job`: lines of words key=value (scontrol prints a
\* value after every key).
Word(k, v) == <<k, v>>
DetailTexts ==
    {<< <<Word("JobId", "7"), Word("JobState", "RUNNING")>> >>,
     << <<Word("JobId", "7")>>, <<Word("StdErr", "/e")>>, <<Word("StdOut", "/o")>> >>,
     << <<Word("StdOut", "/dev/null")>>, <<Word("StdErr", "/e")>> >>,
     << <<Word("StdOut", "/o")>> >>,
     << <<Word("StdErr", "/dev/null")>> >>,
     << <<Word("StdOut", "/o"), Word("StdErr", "/e")>> >>,
     << <<Word("StdOut", "/dev/null")>>, <<Word("StdErr", "/dev/null")>> >>}

\* "<key>=" in line
HasKey(line, k) == \E i \in 1..Len(line) : line[i][1] = k

\* line.split("<key>=")[1].split()[0]: the value after the first <key>=.
ValueAfter(line, k) ==
    LET first == CHOOSE i \in 1..Len(line) :
                     /\ line[i][1] = k
                     /\ \A j \in 1..(i - 1) : line[j][1] # k
    IN line[first][2]

\* get_job_output_paths, slurm_client.py:181-190: the loop over the lines of
\* detail, from the paths <<stdout_file, stderr_file>> found so far.
RECURSIVE scan_paths(_, _)
scan_paths(detail, paths) ==
    IF detail = <<>> THEN paths
    ELSE LET line == Head(detail)
         IN scan_paths(Tail(detail),
                IF HasKey(line, "StdOut")
                THEN <<ValueAfter(line, "StdOut"), paths[2]>>
                ELSE IF HasKey(line, "StdErr")
                     THEN <<paths[1], ValueAfter(line, "StdErr")>>
                     ELSE paths)

\* get_job_output_paths, slurm_client.py:165-190, once detail is there.
get_job_output_paths(detail) ==
    IF ~tools.scontrol THEN <<"", "">> ELSE scan_paths(detail, <<"", "">>)

\* get_job_detail, slurm_client.py:145-153, from the return of run_cmd on: a
\* failure becomes a text (one line, without markers).
get_job_detail(rc, out) ==
    IF rc # 0 THEN << <<Word("Failed to get job detail:", "")>> >> ELSE out

MockOutput == << <<"Mock stdout output for testing">>,
                 <<"Mock stderr output for testing">> >>

Streams == {1, 2}
ShowJob == <<"scontrol show job", "jobid">>
Tail_n(path) == <<"tail -n", path>>

\* _read_output_file, slurm_client.py:219-220: the paths it reads nothing for.
no_read(path) == path = "" \/ path = "/dev/null"

\* How a read ends: the exit code of tail with its output, or an exception
\* raised by run_cmd.
ReadEnds == {[rc |-> 0, out |-> <<"log">>], [rc |-> 0, out |-> <<>>],
             [rc |-> 1, err |-> <<"No such file">>],
             [rc |-> 124, err |-> <<"Timeout">>],
             [exception |-> <<"boom">>]}

\* _read_output_file, slurm_client.py:221-227: the content a read yields.
read_output_file(e) ==
    IF "exception" \in DOMAIN e THEN <<"Error reading file: ">> \o e.exception
    ELSE IF e.rc = 0 THEN e.out
    ELSE <<"Could not read file: ">> \o e.err

Pending == <<"pending">>

\* get_job_output, slurm_client.py:200-210, once the paths are known: the mock
\* pair when both paths are empty; else both files are read concurrently.  ran
\* holds the commands the call has run so far.
get_job_output(detailArg, detail, ran) ==
    LET paths == get_job_output_paths(detail)
        content == [s \in Streams |-> IF no_read(paths[s]) THEN Empty ELSE Pending]
        reads == SelectSeq(<<Tail_n(paths[1]), Tail_n(paths[2])>>,
                           LAMBDA c : ~no_read(c[2]))
    IN IF paths[1] = "" /\ paths[2] = ""
       THEN /\ call' = [op |-> "get_job_output", pc |-> "done", arg |-> detailArg,
                        detail |-> detail, paths |-> paths]
            /\ result' = Return(MockOutput)
            /\ commands' = ran
       ELSE /\ commands' = ran \o reads
            /\ IF reads = <<>>
               THEN /\ call' = [op |-> "get_job_output", pc |-> "done",
                                arg |-> detailArg, detail |-> detail,
                                paths |-> paths]
                    /\ result' = Return(<<content[1], content[2]>>)
               ELSE /\ call' = [op |-> "get_job_output", pc |-> "reading",
                                arg |-> detailArg, detail |-> detail,
                                paths |-> paths, content |-> content,
                                ends |-> [s \in Streams |-> "none"]]
                    /\ result' = NoResult

\* The argument detail of get_job_output: a text, or None.
DetailArgs == {[given |-> TRUE, text |-> d] : d \in DetailTexts}
                \cup {[given |-> FALSE, text |-> <<>>]}

\* get_job_output is called (lines 178-179: without a detail text, the client
\* fetches it, unless scontrol is missing).
GetJobOutputStart(detailArg) ==
    /\ call.pc = "done"
    /\ IF ~detailArg.given /\ tools.scontrol
       THEN /\ call' = [op |-> "get_job_output", pc |-> "detail", arg |-> detailArg]
            /\ commands' = <<ShowJob>>
            /\ result' = NoResult
       ELSE get_job_output(detailArg, detailArg.text, <<>>)
    /\ UNCHANGED <<tools, appVars>>

\* get_job_output_paths, slurm_client.py:178-179: get_job_detail is over.
GetJobOutputDetailDone(rc, out) ==
    /\ call.op = "get_job_output" /\ call.pc = "detail"
    /\ get_job_output(call.arg, get_job_detail(rc, out), commands)
    /\ UNCHANGED <<tools, appVars>>

\* One of the two reads is over; the gather returns when both are.
GetJobOutputReadDone(s, e) ==
    /\ call.op = "get_job_output" /\ call.pc = "reading"
    /\ call.content[s] = Pending
    /\ LET content == [call.content EXCEPT ![s] = read_output_file(e)]
           ends == [call.ends EXCEPT ![s] = IF "exception" \in DOMAIN e
                                            THEN "exception"
                                            ELSE IF e.rc = 0 THEN "ok" ELSE "failed"]
           over == \A t \in Streams : content[t] # Pending
       IN /\ call' = [call EXCEPT !.content = content, !.ends = ends,
                                  !.pc = IF over THEN "done" ELSE "reading"]
          /\ result' = IF over THEN Return(<<content[1], content[2]>>) ELSE result
    /\ UNCHANGED <<commands, tools, appVars>>

\* ------------------------------------------- get_job_detail, get_job_script
\* What a command may print: nothing, blanks, text, text within blanks.
OutTexts == {<<>>, <<" ", "\n">>, <<"x">>, <<" ", "x", "\n">>}

UnknownError == <<"unknown error">>
NoScript == <<"(No script stored by controller)">>
MockDetail == <<"Mock details for Job">>
NoScontrol == <<"Slurm scontrol not available; cannot fetch job script.">>

\* get_job_detail that lets the failure of scontrol through.
get_job_detail_raises(rc, out, err) ==
    IF rc # 0 THEN Raise("RuntimeError", <<"scontrol failed: ">> \o err)
    ELSE Return(strip(out))

\* get_job_detail, slurm_client.py:150-153, from the return of run_cmd on,
\* with the text of the command's stderr.
get_job_detail_result(rc, out, err) ==
    IF rc # 0
    THEN Return(<<"Failed to get job detail: ">>
                  \o (IF strip(err) # <<>> THEN strip(err) ELSE UnknownError))
    ELSE Return(strip(out))

\* get_job_script, slurm_client.py:160-163, from the return of run_cmd on.
get_job_script_result(rc, out) ==
    IF rc = 0 /\ strip(out) # <<>> THEN Return(rstrip(out)) ELSE Return(NoScript)

WriteScript == <<"scontrol write batch_script", "jobid">>
AdvisoryOps == {"get_job_detail", "get_job_script"}

\* get_job_detail / get_job_script up to the await of run_cmd (lines 147-150,
\* 157-160): without scontrol, a fixed text.
AdvisoryStart(op) ==
    /\ call.pc = "done"
    /\ IF ~tools.scontrol
       THEN /\ call' = [op |-> op, pc |-> "done"]
            /\ commands' = <<>>
            /\ result' = Return(IF op = "get_job_detail" THEN MockDetail
                                ELSE NoScontrol)
       ELSE /\ call' = [op |-> op, pc |-> "run"]
            /\ commands' = <<IF op = "get_job_detail" THEN ShowJob ELSE WriteScript>>
            /\ result' = NoResult
    /\ UNCHANGED <<tools, appVars>>

\* run_cmd returned (rc, out, err).
AdvisoryDone(rc, out, err) ==
    /\ call.op \in AdvisoryOps /\ call.pc = "run"
    /\ call' = [op |-> call.op, pc |-> "done", rc |-> rc, out |-> out, err |-> err]
    /\ result' = IF call.op = "get_job_detail"
                 THEN get_job_detail_result(rc, out, err)
                 ELSE get_job_script_result(rc, out)
    /\ UNCHANGED <<commands, tools, appVars>>

\* -------------------------------------------------------------- cancel_job
Scancel == <<"scancel", "jobid">>
Cancelled == <<"Job ", "jobid", " cancelled successfully">>

\* cancel_job that takes a timeout of scancel for a success.
cancel_job_but_for_timeout(rc, err) ==
    IF rc = 0 \/ rc = 124 THEN Return(<<TRUE, Cancelled>>)
    ELSE Return(<<FALSE, IF strip(err) # <<>> THEN strip(err)
                         ELSE <<"Unknown error">> >>)

\* cancel_job, slurm_client.py:447-449, from the return of run_cmd on.
cancel_job_result(rc, err) ==
    IF rc = 0 THEN Return(<<TRUE, Cancelled>>)
    ELSE Return(<<FALSE, IF strip(err) # <<>> THEN strip(err)
                         ELSE <<"Unknown error">> >>)

\* cancel_job up to the await of run_cmd (lines 441-445).
CancelJobStart ==
    /\ call.pc = "done"
    /\ IF ~tools.scancel
       THEN /\ call' = [op |-> "cancel_job", pc |-> "done"]
            /\ commands' = <<>>
            /\ result' = Return(<<FALSE, <<"scancel command not found">> >>)
       ELSE /\ call' = [op |-> "cancel_job", pc |-> "run"]
            /\ commands' = <<Scancel>>
            /\ result' = NoResult
    /\ UNCHANGED <<tools, appVars>>

\* scancel is over.
CancelJobReturn(rc, err) ==
    /\ call.op = "cancel_job" /\ call.pc = "run"
    /\ call' = [op |-> "cancel_job", pc |-> "done", rc |-> rc, err |-> err]
    /\ result' = cancel_job_result(rc, err)
    /\ UNCHANGED <<commands, tools, appVars>>

ClientNext ==
    \/ \E cmds \in CmdSets, mock_mode \in MockKeywords : Construct(cmds, mock_mode)
    \/ GetJobsStart
    \/ \E rc \in ExitCodes, out \in PrimaryOutputs, err \in ErrTexts :
           GetJobsPrimaryDone(rc, out, err)
    \/ \E rc \in ExitCodes, out \in FallbackOutputs, err \in ErrTexts :
           GetJobsFallbackDone(rc, out, err)
    \/ \E detailArg \in DetailArgs : GetJobOutputStart(detailArg)
    \/ \E rc \in ExitCodes, out \in DetailTexts : GetJobOutputDetailDone(rc, out)
    \/ \E s \in Streams, e \in ReadEnds : GetJobOutputReadDone(s, e)
    \/ \E op \in AdvisoryOps : AdvisoryStart(op)
    \/ \E rc \in ExitCodes, out \in OutTexts, err \in ErrTexts :
           AdvisoryDone(rc, out, err)
    \/ CancelJobStart
    \/ \E rc \in ExitCodes, err \in ErrTexts : CancelJobReturn(rc, err)

\* The client on its own: the dashboard stays as constructed.
InitClient == AppInit /\ ClientInit

SpecClient == InitClient /\ [][ClientNext]_vars

\* ------------------------------------------------------------ specification
Outcomes == {"ok", "fail"}
Listings == {"jobs", "nodes"}

\* A dashboard session starts from the constructed App.
InitSession == AppInit /\ ClientIdle

\* The awaited refresh_data() of on_mount, action_refresh and on_key.
DirectCycle ==
    \/ \E listing \in Listings, o \in Outcomes : DirectListingDone(listing, o)
    \/ \E jobs \in JobListings, nodes \in NodeListings : DirectRefreshDone(jobs, nodes)

\* The dashboard under a user who presses keys and moves the cursor: the
\* two-step cancel.  Keys: cancel, refresh-now, an unbound key.
CancelKeys == {"c", "r", "x"}

NextCancel ==
    \/ on_mount
    \/ DirectCycle
    \/ \E k \in CancelKeys : Key(k)
    \/ \E success \in BOOLEAN : CancelJobDone(success)
    \/ \E r \in 1..2 : CursorMoved(r)

SpecCancel == InitSession /\ [][NextCancel]_vars

\* The two-step cancel while the list refresh timer runs: the table may change
\* between the two key presses.
NextConfirm ==
    \/ on_mount
    \/ DirectCycle
    \/ \E k \in CancelKeys : Key(k)
    \/ \E success \in BOOLEAN : CancelJobDone(success)
    \/ \E r \in 1..2 : CursorMoved(r)
    \/ ScheduleRefresh
    \/ \E w \in refresh_workers : RefreshWorkerStart(w)
    \/ \E w \in refresh_workers, listing \in Listings, o \in Outcomes :
           RefreshWorkerListingDone(w, listing, o)
    \/ \E w \in refresh_workers, jobs \in JobListings, nodes \in NodeListings :
           RefreshWorkerDone(w, jobs, nodes)

SpecConfirm == InitSession /\ [][NextConfirm]_vars

\* The session as a whole: the keys, the selection (whose load fails at its
\* first step), the sort and the list refresh timer.
SessionKeys == {"c"}

NextSession ==
    \/ on_mount
    \/ DirectCycle
    \/ \E k \in SessionKeys : Key(k)
    \/ \E success \in BOOLEAN : CancelJobDone(success)
    \/ \E r \in 1..2 : on_data_table_row_selected(r)
    \/ \E col \in SortColumns : on_data_table_header_selected(col)
    \/ \E w \in load_workers : LoadStart(w)
    \/ \E w \in load_workers : LoadDetailDone(w, "fail")
    \/ ScheduleRefresh
    \/ \E w \in refresh_workers : RefreshWorkerStart(w)
    \/ \E w \in refresh_workers, listing \in Listings, o \in Outcomes :
           RefreshWorkerListingDone(w, listing, o)
    \/ \E w \in refresh_workers, jobs \in JobListings, nodes \in NodeListings :
           RefreshWorkerDone(w, jobs, nodes)

SpecSession == InitSession /\ [][NextSession]_vars

\* The dashboard under a user who selects rows and toggles real-time polling,
\* with the 5 s output timer running.
SelectKeys == {"t"}

NextSelect ==
    \/ on_mount
    \/ DirectCycle
    \/ \E k \in SelectKeys : Key(k)
    \/ \E r \in 1..2 : on_data_table_row_selected(r)
    \/ \E w \in load_workers : LoadStart(w)
    \/ \E w \in load_workers, o \in Outcomes : LoadDetailDone(w, o)
    \/ \E w \in load_workers, o \in Outcomes : LoadOutputDone(w, o)
    \/ ScheduleOutputRefresh
    \/ \E w \in output_workers : OutputWorkerStart(w)
    \/ \E w \in output_workers, o \in Outcomes : OutputWorkerDone(w, o)

SpecSelect == InitSession /\ [][NextSelect]_vars

\* The dashboard started with --refresh (main.py:44, any float), under a user
\* who lengthens and shortens the interval: -2, 0, 0.5, 1, 5, 59.5, 60 and 62
\* seconds.
RefreshArgs == {0 - Sec(2), 0, 1, Sec(1), DefaultRefresh, Sec(60) - 1, Sec(60), Sec(62)}
IntervalKeys == {"plus", "minus"}

InitInterval == (\E refresh \in RefreshArgs : SlurmDashboard_init(refresh)) /\ ClientIdle

NextInterval ==
    \/ on_mount
    \/ \E listing \in Listings, o \in Outcomes : DirectListingDone(listing, o)
    \/ \E nodes \in NodeListings : DirectRefreshDone(<<>>, nodes)
    \/ \E k \in IntervalKeys : Key(k)

SpecInterval == InitInterval /\ [][NextInterval]_vars

\* The dashboard under a user who sorts the jobs table on its columns, after
\* the first refresh has listed up to three jobs.
SortHeaders == {"JOBID", "CPUS", "MEM"}
SortListings ==
    {<<>>,
     <<JobRow("101", "RUNNING", "8", "16G"), JobRow("102", "RUNNING", "", "512M"),
       JobRow("103", "PENDING", "8", "")>>,
     <<JobRow("101", "RUNNING", "N/A", ""), JobRow("102", "RUNNING", "16", "16G"),
       JobRow("103", "PENDING", "8", "16G")>>,
     <<JobRow("103", "RUNNING", "16", "512M"), JobRow("101", "RUNNING", "8", "16G"),
       JobRow("102", "PENDING", "16", "")>>,
     <<JobRow("102", "RUNNING", "", "16G"), JobRow("101", "RUNNING", "N/A", "512M")>>,
     <<JobRow("102", "RUNNING", "16", "512M"), JobRow("101", "PENDING", "8", "16G"),
       JobRow("103", "RUNNING", "N/A", "512M")>>}

NextSort ==
    \/ on_mount
    \/ \E listing \in Listings, o \in Outcomes : DirectListingDone(listing, o)
    \/ \E jobs \in SortListings, nodes \in NodeListings : DirectRefreshDone(jobs, nodes)
    \/ \E col \in SortHeaders : on_data_table_header_selected(col)

SpecSort == InitSession /\ [][NextSort]_vars

\* The dashboard under the list refresh timer and a user who asks for a
\* refresh and sorts the jobs table.
RefreshKeys == {"r"}

NextRefresh ==
    \/ on_mount
    \/ DirectCycle
    \/ \E k \in RefreshKeys : Key(k)
    \/ \E col \in SortColumns : on_data_table_header_selected(col)
    \/ ScheduleRefresh
    \/ \E w \in refresh_workers : RefreshWorkerStart(w)
    \/ \E w \in refresh_workers, listing \in Listings, o \in Outcomes :
           RefreshWorkerListingDone(w, listing, o)
    \/ \E w \in refresh_workers, jobs \in JobListings, nodes \in NodeListings :
           RefreshWorkerDone(w, jobs, nodes)

SpecRefresh == InitSession /\ [][NextRefresh]_vars

\* ================================================================= the filter
\* Texts are sequences of characters.  str.lower() on the letters of the
\* model's texts.
lower_char(ch) ==
    CASE ch = "A" -> "a" [] ch = "D" -> "d" [] ch = "G" -> "g" [] ch = "L" -> "l"
      [] ch = "N" -> "n" [] ch = "P" -> "p" [] ch = "R" -> "r" [] ch = "U" -> "u"
      [] ch = "X" -> "x" [] OTHER -> ch
lower(t) == [i \in 1..Len(t) |-> lower_char(t[i])]

\* pat in text, on strings: pat is a run of consecutive characters of text.
RECURSIVE str_in(_, _)
str_in(pat, text) ==
    IF Len(pat) > Len(text) THEN FALSE
    ELSE IF SubSeq(text, 1, Len(pat)) = pat THEN TRUE
    ELSE str_in(pat, Tail(text))

\* An Optional[str] attribute of the filter (user, partition, state), and its
\* truth value: None and the empty string are false.
Unset == [given |-> FALSE, text |-> <<>>]
Some(t) == [given |-> TRUE, text |-> t]
truthy(o) == o.given /\ o.text # <<>>

\* r.get(key, "").
get(r, key) == IF key \in DOMAIN r THEN r[key] ELSE <<>>

\* The four narrowing passes of Filter.apply_jobs, widgets.py:87-99: what
\* each keeps of res.
user_of(r) == IF get(r, "USERNAME") # <<>> THEN get(r, "USERNAME") ELSE get(r, "USER")

\* The user pass that keeps every record whose user contains the filter's.
user_matches_substring(f, r) == str_in(lower(f.user.text), lower(user_of(r)))

user_matches(f, r) == lower(user_of(r)) = lower(f.user.text)
partition_matches(f, r) == str_in(lower(f.partition.text), lower(get(r, "PARTITION")))
state_matches(f, r) == str_in(lower(f.state.text), lower(get(r, "STATE")))
text_matches(f, r) == \E k \in DOMAIN r : str_in(lower(f.text), lower(r[k]))

Passes == {"user", "partition", "state", "text"}
narrow(pass, f, res) ==
    CASE pass = "user" ->
            IF truthy(f.user) THEN SelectSeq(res, LAMBDA r : user_matches(f, r)) ELSE res
      [] pass = "partition" ->
            IF truthy(f.partition)
            THEN SelectSeq(res, LAMBDA r : partition_matches(f, r)) ELSE res
      [] pass = "state" ->
            IF truthy(f.state) THEN SelectSeq(res, LAMBDA r : state_matches(f, r)) ELSE res
      [] OTHER ->
            IF f.text # <<>> THEN SelectSeq(res, LAMBDA r : text_matches(f, r)) ELSE res

\* The passes in the order given.
RECURSIVE narrow_all(_, _, _)
narrow_all(order, f, res) ==
    IF order = <<>> THEN res
    ELSE narrow_all(Tail(order), f, narrow(Head(order), f, res))

\* Filter.apply_jobs whose text pass starts again from rows.
apply_jobs_text_on_rows(f, rows) == narrow("text", f, rows)

\* Filter.apply_jobs that returns the newest record first.
apply_jobs_newest_first(f, rows) ==
    LET res == narrow_all(<<"user", "partition", "state", "text">>, f, rows)
    IN [i \in 1..Len(res) |-> res[Len(res) + 1 - i]]

\* Filter.apply_jobs, widgets.py:84-100.
apply_jobs(f, rows) == narrow_all(<<"user", "partition", "state", "text">>, f, rows)

\* Filter.apply_nodes, widgets.py:102-112: the user condition plays no part.
apply_nodes(f, rows) == narrow_all(<<"partition", "state", "text">>, f, rows)

\* Job records of both listing schemas (USERNAME in the primary one, USER in
\* the fallback), and filters.
JobRecords ==
    {("USERNAME" :> <<"a", "l">> @@ "PARTITION" :> <<"g", "p", "u", "-", "h">> @@ "STATE" :> <<"R", "U", "N">> @@ "NAME" :> <<"t">>),
     ("USER" :> <<"A", "l">> @@ "PARTITION" :> <<"c", "p", "u">> @@ "STATE" :> <<"P", "D">> @@ "NAME" :> <<"g", "p", "u">>),
     ("USERNAME" :> <<>> @@ "USER" :> <<"a", "l", "x">> @@ "PARTITION" :> <<"G", "P", "U">> @@ "STATE" :> <<"R", "U", "N">> @@ "NAME" :> <<"x">>),
     ("USERNAME" :> <<"b">> @@ "USER" :> <<"a", "l">> @@ "PARTITION" :> <<"g", "p", "u">> @@ "STATE" :> <<"P", "D">> @@ "NAME" :> <<"a", "l">>),
     ("USERNAME" :> <<"a", "L">> @@ "STATE" :> <<"r", "u", "n">> @@ "NAME" :> <<"t">>)}
MaxRows == 2
RowLists == UNION {[1..n -> JobRecords] : n \in 0..MaxRows}

\* Node records, and the lists of them handed to apply_nodes.
NodeRecords ==
    {("NODE" :> <<"d", "1">> @@ "PARTITION" :> <<"g", "p", "u">> @@ "STATE" :> <<"r", "u", "n">>),
     ("NODE" :> <<"a", "l">> @@ "PARTITION" :> <<"c", "p", "u">> @@ "STATE" :> <<"d", "n">>),
     ("NODE" :> <<"x">> @@ "STATE" :> <<"R", "U">>)}
NodeRowLists == UNION {[1..n -> NodeRecords] : n \in 0..MaxRows}
Filters ==
    [user : {Unset, Some(<<>>), Some(<<"a", "l">>), Some(<<"A", "L">>), Some(<<"a">>)},
     partition : {Unset, Some(<<"g", "p", "u">>), Some(<<"P", "U">>)},
     state : {Unset, Some(<<"r", "u">>)},
     text : {<<>>, <<"a", "l">>, <<"X">>}]

\* A filter stands ready to be applied to a list of job records.
FilterInit ==
    /\ tools = [squeue |-> TRUE, sinfo |-> TRUE, scontrol |-> TRUE, scancel |-> TRUE]
    /\ call \in {[op |-> "apply_jobs", pc |-> "call", filter |-> f, rows |-> rows] :
                    f \in Filters, rows \in RowLists}
               \cup {[op |-> "apply_nodes", pc |-> "call", filter |-> f, rows |-> rows] :
                       f \in Filters, rows \in NodeRowLists}
    /\ commands = <<>>
    /\ result = NoResult

\* apply_jobs runs.
ApplyJobs ==
    /\ call.op = "apply_jobs" /\ call.pc = "call"
    /\ call' = [call EXCEPT !.pc = "done"]
    /\ result' = Return(apply_jobs(call.filter, call.rows))
    /\ UNCHANGED <<commands, tools, appVars>>

\* apply_nodes runs.
ApplyNodes ==
    /\ call.op = "apply_nodes" /\ call.pc = "call"
    /\ call' = [call EXCEPT !.pc = "done"]
    /\ result' = Return(apply_nodes(call.filter, call.rows))
    /\ UNCHANGED <<commands, tools, appVars>>

InitFilter == AppInit /\ FilterInit
NextFilter == ApplyJobs \/ ApplyNodes
SpecFilter == InitFilter /\ [][NextFilter]_vars

\* ============================================================ time parsing
Digits == {"0", "1", "2", "3", "4", "5", "6", "7", "8", "9"}
DigitValue(ch) ==
    CASE ch = "0" -> 0 [] ch = "1" -> 1 [] ch = "2" -> 2 [] ch = "3" -> 3
      [] ch = "4" -> 4 [] ch = "5" -> 5 [] ch = "6" -> 6 [] ch = "7" -> 7
      [] ch = "8" -> 8 [] OTHER -> 9

\* The number that a run of decimal digits writes.
RECURSIVE decimal(_)
decimal(t) ==
    IF t = <<>> THEN 0
    ELSE 10 * decimal(SubSeq(t, 1, Len(t) - 1)) + DigitValue(t[Len(t)])

\* int(text): blanks around the number are dropped and a sign is taken; ok is
\* FALSE where int() raises ValueError.
int(text) ==
    LET t == strip(text)
        signed == t # <<>> /\ Head(t) \in {"+", "-"}
        digits == IF signed THEN Tail(t) ELSE t
    IN IF digits # <<>> /\ \A i \in 1..Len(digits) : digits[i] \in Digits
       THEN [ok |-> TRUE,
             value |-> IF signed /\ Head(t) = "-" THEN 0 - decimal(digits)
                       ELSE decimal(digits)]
       ELSE [ok |-> FALSE, value |-> 0]

\* text.split(sep): the pieces of text between the occurrences of sep.
RECURSIVE split(_, _)
split(text, sep) ==
    IF \A i \in 1..Len(text) : text[i] # sep THEN <<text>>
    ELSE LET i == CHOOSE n \in 1..Len(text) :
                      text[n] = sep /\ \A m \in 1..(n - 1) : text[m] # sep
         IN <<SubSeq(text, 1, i - 1)>> \o split(SubSeq(text, i + 1, Len(text)), sep)

\* text.split(sep, 1): the text before the first sep and the text after it.
split_once(text, sep) ==
    LET i == CHOOSE n \in 1..Len(text) :
                 text[n] = sep /\ \A m \in 1..(n - 1) : text[m] # sep
    IN <<SubSeq(text, 1, i - 1), SubSeq(text, i + 1, Len(text))>>

\* The texts that stand for no duration, slurm_client.py:397.
UNLIMITED == <<"U", "N", "L", "I", "M", "I", "T", "E", "D">>
INVALID == <<"I", "N", "V", "A", "L", "I", "D">>
Partition_Limit == <<"P", "a", "r", "t", "i", "t", "i", "o", "n", "_", "L", "i", "m", "i", "t">>

\* parse_time_to_seconds, slurm_client.py:391-419.
parse_time_to_seconds(time_str) ==
    IF time_str = <<>> \/ time_str \in {UNLIMITED, INVALID, Partition_Limit}
    THEN 0 - 1
    ELSE LET dashed == \E i \in 1..Len(time_str) : time_str[i] = "-"
             days == IF dashed THEN int(split_once(time_str, "-")[1])
                     ELSE [ok |-> TRUE, value |-> 0]
             time_part == IF dashed THEN split_once(time_str, "-")[2] ELSE time_str
             parts == split(time_part, ":")
             fields == [i \in 1..Len(parts) |-> int(parts[i])]
         IN IF ~days.ok THEN 0 - 1
            ELSE IF Len(parts) \notin {2, 3} THEN 0 - 1
            ELSE IF \E i \in 1..Len(parts) : ~fields[i].ok THEN 0 - 1
            ELSE IF Len(parts) = 3
            THEN days.value * 86400 + fields[1].value * 3600
                 + fields[2].value * 60 + fields[3].value
            ELSE days.value * 86400 + fields[1].value * 60 + fields[2].value

\* A ratio of two whole numbers of seconds, and the float -1.0.
Ratio(n, d) == [num |-> n, den |-> d]
MinusOne == Ratio(0 - 1, 1)

\* calculate_time_ratio, slurm_client.py:421-433.
calculate_time_ratio(time_used, time_limit) ==
    LET used_sec == parse_time_to_seconds(time_used)
        limit_sec == parse_time_to_seconds(time_limit)
    IN IF used_sec < 0 \/ limit_sec <= 0 THEN MinusOne
       ELSE Ratio(used_sec, limit_sec)

\* Time texts: the three forms squeue prints, the texts for no duration, and
\* texts of no form.
TimeStrings ==
    {<<"0", "5", ":", "3", "0">>,
     <<"0", "2", ":", "3", "0", ":", "4", "5">>,
     <<"1", "-", "1", "2", ":", "0", "0", ":", "0", "0">>,
     UNLIMITED,
     INVALID,
     Partition_Limit,
     <<>>,
     <<"a", "b", "c">>,
     <<"1", "-", "3", "0", ":", "0", "0">>,
     <<"0", "-", "-", "1", ":", "0", "0", ":", "0", "0">>,
     <<"0", "0", ":", "0", "0">>,
     <<"5">>,
     <<"1", ":", "2", ":", "3", ":", "4">>,
     <<"-", "5", ":", "0", "0">>,
     <<"+", "1", ":", "0", "0">>,
     <<"0", "-", "0", "0", ":", "0", "0", ":", "0", "0">>}

\* A time text, or a pair of them, stands ready to be parsed.
TimeInit ==
    /\ tools = [squeue |-> TRUE, sinfo |-> TRUE, scontrol |-> TRUE, scancel |-> TRUE]
    /\ call \in {[op |-> "parse_time_to_seconds", pc |-> "call", time_str |-> t] :
                    t \in TimeStrings}
               \cup {[op |-> "calculate_time_ratio", pc |-> "call",
                       time_used |-> u, time_limit |-> l] :
                        u \in TimeStrings, l \in TimeStrings}
    /\ commands = <<>>
    /\ result = NoResult

ParseTimeToSeconds ==
    /\ call.op = "parse_time_to_seconds" /\ call.pc = "call"
    /\ call' = [call EXCEPT !.pc = "done"]
    /\ result' = Return(parse_time_to_seconds(call.time_str))
    /\ UNCHANGED <<commands, tools, appVars>>

CalculateTimeRatio ==
    /\ call.op = "calculate_time_ratio" /\ call.pc = "call"
    /\ call' = [call EXCEPT !.pc = "done"]
    /\ result' = Return(calculate_time_ratio(call.time_used, call.time_limit))
    /\ UNCHANGED <<commands, tools, appVars>>

InitTime == AppInit /\ TimeInit
NextTime == ParseTimeToSeconds \/ CalculateTimeRatio
SpecTime == InitTime /\ [][NextTime]_vars

\* ========================================================= the command runner
\* run_cmd, utils.py:19-41, as the steps of one call: the subprocess is
\* created, then communicate() returns or the timeout passes first.  proc is
\* the subprocess as the event loop sees it: "running", or "exited" once its
\* return code is known; signals are the signals it was sent.
Commands == {Primary, ShowJob, Scancel}
Timeouts == {"10.0", "5.0"}
ReturnCodes == {0, 1, 130}
SIGINT == "SIGINT"

\* Line 40: what run_cmd returns for a timeout.
TimeoutText(cmd, timeout) == <<"Timeout", " after ", timeout, "s for: ", cmd>>

\* The handler of the timeout that lets TimeoutError pass.
on_timeout_raises(cmd, timeout) == Raise("TimeoutError", <<>>)

on_timeout(cmd, timeout) == Return(<<124, <<>>, TimeoutText(cmd, timeout)>>)

\* Line 41: proc.returncode or 0 (the return code is known once communicate()
\* has returned), and the two decoded texts.
on_communicated(returncode, out, err) ==
    Return(<<returncode, out, err>>)

RunCmdInit ==
    /\ tools = [squeue |-> TRUE, sinfo |-> TRUE, scontrol |-> TRUE, scancel |-> TRUE]
    /\ call \in {[op |-> "run_cmd", pc |-> "call", cmd |-> cmd, timeout |-> t,
                  proc |-> "none", timed_out |-> FALSE, signals |-> <<>>,
                  lookup_errors |-> 0] :
                    cmd \in Commands, t \in Timeouts}
    /\ commands = <<>>
    /\ result = NoResult

\* Lines 29-34: the shell is started on cmd; run_cmd awaits communicate().
CreateSubprocess ==
    /\ call.op = "run_cmd" /\ call.pc = "call"
    /\ call' = [call EXCEPT !.pc = "communicate", !.proc = "running"]
    /\ commands' = <<call.cmd>>
    /\ UNCHANGED <<result, tools, appVars>>

\* The subprocess ends, at any time after its start: its return code is set.
\* Its pipes may stay open after that (a child of the shell holds them), so
\* communicate() need not return at once.
ProcExits ==
    /\ call.op = "run_cmd" /\ call.proc = "running"
    /\ call' = [call EXCEPT !.proc = "exited"]
    /\ UNCHANGED <<commands, result, tools, appVars>>

\* Lines 36 and 41: communicate() returned within the timeout.
Communicated(returncode, out, err) ==
    /\ call.op = "run_cmd" /\ call.pc = "communicate" /\ call.proc = "exited"
    /\ call' = [call EXCEPT !.pc = "done"]
    /\ result' = on_communicated(returncode, out, err)
    /\ UNCHANGED <<commands, tools, appVars>>

\* Lines 37-40: the timeout passed first.  send_signal raises
\* ProcessLookupError, which is suppressed, when the return code is known.
TimedOut ==
    /\ call.op = "run_cmd" /\ call.pc = "communicate"
    /\ call' = [call EXCEPT !.pc = "done", !.timed_out = TRUE,
                            !.signals = IF call.proc = "running"
                                        THEN Append(@, SIGINT) ELSE @,
                            !.lookup_errors = IF call.proc = "running"
                                              THEN @ ELSE @ + 1]
    /\ result' = on_timeout(call.cmd, call.timeout)
    /\ UNCHANGED <<commands, tools, appVars>>

InitRunCmd == AppInit /\ RunCmdInit
NextRunCmd ==
    \/ CreateSubprocess
    \/ ProcExits
    \/ \E returncode \in ReturnCodes, out \in OutTexts, err \in ErrTexts :
           Communicated(returncode, out, err)
    \/ TimedOut
SpecRunCmd == InitRunCmd /\ [][NextRunCmd]_vars

\* ========================================================= the GPU-status feed
\* GpustatClient.connect, gpustat_client.py:63-104, as the steps of the task
\* that runs it, and disconnect, lines 106-118.  call holds the client
\* (running: _running) and the task (pc, retry_delay); log is the history of
\* the task: 0 for a connection made, n for a wait of n seconds before the
\* next attempt.
MaxEvents == 8
MaxDelay == 30
NoFeed == [op |-> "connect", pc |-> "call", running |-> FALSE, retry_delay |-> 0,
           log |-> <<>>, disconnected |-> FALSE, cancelled |-> FALSE,
           has_websockets |-> TRUE]

\* Line 104 without the cap.
next_delay_uncapped(retry_delay) == retry_delay * 2

\* Line 104: min(retry_delay * 2, 30.0).
next_delay(retry_delay) ==
    IF retry_delay * 2 < MaxDelay THEN retry_delay * 2 ELSE MaxDelay

FeedInit ==
    /\ tools = [squeue |-> TRUE, sinfo |-> TRUE, scontrol |-> TRUE, scancel |-> TRUE]
    /\ call \in {[NoFeed EXCEPT !.has_websockets = h] : h \in BOOLEAN}
    /\ commands = <<>>
    /\ result = NoResult

FeedTask(pcs) == call.op = "connect" /\ call.pc \in pcs
FeedFrame == UNCHANGED <<commands, tools, appVars>>

\* Lines 69-74: the task starts on connect().
FeedStart ==
    /\ FeedTask({"call"})
    /\ IF call.has_websockets
       THEN /\ call' = [call EXCEPT !.pc = "loop", !.running = TRUE, !.retry_delay = 1]
            /\ result' = result
       ELSE /\ call' = [call EXCEPT !.pc = "returned"]
            /\ result' = Return(<<"websockets library not installed">>)
    /\ FeedFrame

\* Line 76: the test of the outer loop; line 78: ws_connect is awaited.
FeedAttempt ==
    /\ FeedTask({"loop"})
    /\ IF call.running
       THEN /\ Len(call.log) < MaxEvents
            /\ call' = [call EXCEPT !.pc = "connecting"]
            /\ result' = result
       ELSE /\ call' = [call EXCEPT !.pc = "returned"]
            /\ result' = Return(<<>>)
    /\ FeedFrame

\* Lines 78-83: the connection is made and the first query sent.
FeedConnected ==
    /\ FeedTask({"connecting"})
    /\ call' = [call EXCEPT !.pc = "connected", !.retry_delay = 1,
                            !.log = Append(@, 0)]
    /\ UNCHANGED result
    /\ FeedFrame

\* Line 85: the inner loop ends once _running is false, and the connection is
\* left.
FeedLeaves ==
    /\ FeedTask({"connected"})
    /\ ~call.running
    /\ call' = [call EXCEPT !.pc = "loop"]
    /\ UNCHANGED result
    /\ FeedFrame

\* Lines 100-103: ws_connect, send or recv raised an error; the task tells
\* the viewer and sleeps for retry_delay, unless _running is false.
FeedError ==
    /\ FeedTask({"connecting", "connected"})
    /\ call' = IF call.running
               THEN [call EXCEPT !.pc = "sleeping", !.log = Append(@, call.retry_delay)]
               ELSE [call EXCEPT !.pc = "loop"]
    /\ UNCHANGED result
    /\ FeedFrame

\* Line 104: the sleep is over.
FeedSleepOver ==
    /\ FeedTask({"sleeping"})
    /\ call' = [call EXCEPT !.pc = "loop", !.retry_delay = next_delay(@)]
    /\ UNCHANGED result
    /\ FeedFrame

\* disconnect, lines 106-118, once connect() has started (no one sets _task,
\* so it cancels nothing).
FeedDisconnect ==
    /\ FeedTask({"loop", "connecting", "connected", "sleeping", "returned"})
    /\ ~call.disconnected
    /\ call' = [call EXCEPT !.running = FALSE, !.disconnected = TRUE]
    /\ UNCHANGED result
    /\ FeedFrame

\* The task is cancelled at one of its awaits: lines 98-99 end the loop, and
\* out of the sleep of line 103 CancelledError leaves connect().
FeedCancelled ==
    /\ FeedTask({"connecting", "connected", "sleeping"})
    /\ call' = [call EXCEPT !.pc = "returned", !.cancelled = TRUE]
    /\ result' = IF call.pc = "sleeping" THEN Raise("CancelledError", <<>>)
                 ELSE Return(<<>>)
    /\ FeedFrame

InitFeed == AppInit /\ FeedInit
NextFeed ==
    \/ FeedStart
    \/ FeedAttempt
    \/ FeedConnected
    \/ FeedLeaves
    \/ FeedError
    \/ FeedSleepOver
    \/ FeedDisconnect
    \/ FeedCancelled
SpecFeed == InitFeed /\ [][NextFeed]_vars

\* ============================================================ line parsing
\* Pure functions of the client on texts (sequences of characters), each
\* applied to one input drawn at the start.
widths == <<10, 12, 36, 10, 10, 50, 12, 14>>
NumFields == 11

\* line[pos : pos + width] for 0-based pos.
slice(text, pos, width) ==
    SubSeq(text, pos + 1, IF pos + width < Len(text) THEN pos + width ELSE Len(text))

\* text.split(None, maxsplit): the words of text between runs of blanks, the
\* last piece being what is left after maxsplit words.
RECURSIVE split_blank(_, _)
split_blank(text, maxsplit) ==
    LET t == lstrip(text)
    IN IF t = <<>> THEN <<>>
       ELSE IF maxsplit = 0 THEN <<t>>
       ELSE IF \A i \in 1..Len(t) : t[i] \notin Whitespace THEN <<t>>
       ELSE LET i == CHOOSE n \in 1..Len(t) :
                         t[n] \in Whitespace /\ \A m \in 1..(n - 1) : t[m] \notin Whitespace
            IN <<SubSeq(t, 1, i - 1)>>
                   \o split_blank(SubSeq(t, i + 1, Len(t)), maxsplit - 1)

\* Lines 235-239: the fixed-width fields from position pos on, for the widths
\* ws left.
RECURSIVE fixed_parts(_, _, _)
fixed_parts(line, pos, ws) ==
    IF ws = <<>> THEN [parts |-> <<>>, pos |-> pos]
    ELSE IF pos >= Len(line)
    THEN LET rest == fixed_parts(line, pos, Tail(ws))
         IN [parts |-> <<Empty>> \o rest.parts, pos |-> rest.pos]
    ELSE LET rest == fixed_parts(line, pos + Head(ws), Tail(ws))
         IN [parts |-> <<strip(slice(line, pos, Head(ws)))>> \o rest.parts,
             pos |-> rest.pos]

\* remaining.split(None, 2) that splits at every run of blanks.
remaining_parts_all(remaining) == split_blank(remaining, Len(remaining))

\* Line 243.
remaining_parts(remaining) == split_blank(remaining, 2)

\* _parse_squeue_output_line, slurm_client.py:229-251, on the characters of a
\* line.
parse_squeue_output_line_text(line) ==
    LET fixed == fixed_parts(line, 0, widths)
        remaining == strip(SubSeq(line, fixed.pos + 1, Len(line)))
    IN IF remaining # <<>>
       THEN LET parts == fixed.parts \o remaining_parts(remaining)
            IN parts \o [i \in 1..(NumFields - Len(parts)) |-> Empty]
       ELSE fixed.parts \o <<Empty, Empty, Empty>>

\* Lines of squeue -O: fields padded to their widths and the words that
\* follow them, and every prefix of such a line.
RECURSIVE padded(_, _)
padded(fields, ws) ==
    IF fields = <<>> THEN <<>>
    ELSE Head(fields) \o [i \in 1..(Head(ws) - Len(Head(fields))) |-> " "]
             \o padded(Tail(fields), Tail(ws))
FieldSets ==
    {<<<<"7">>,
       <<"g", "p", "u">>,
       <<"t", "r", "a", "i", "n">>,
       <<"a", "l", "i", "c", "e">>,
       <<"R", "U", "N", "N", "I", "N", "G">>,
       <<"g", "r", "e", "s", "/", "g", "p", "u", ":", "h", "1", "0", "0", ":", "4">>,
       <<"0", ":", "1", "0">>,
       <<"1", ":", "0", "0">>>>,
     <<<<"1", "2", "3", "4", "5", "6", "7", "8", "9", "0">>,
       <<"i", "n", "t", "e", "r", "a", "c", "t", "i", "v", "e", "-", "x">>,
       <<"a", " ", "n", "a", "m", "e", " ", "w", "i", "t", "h", " ", "b", "l", "a", "n", "k", "s">>,
       <<"b", "o", "b">>,
       <<"P", "E", "N", "D", "I", "N", "G">>,
       <<"N", "/", "A">>,
       <<>>,
       <<"U", "N", "L", "I", "M", "I", "T", "E", "D">>>>}
Remainders ==
    {<<>>,
     <<"1">>,
     <<"1", " ", "d", "g", "x", "0", "1">>,
     <<"1", " ", "d", "g", "x", "0", "1", " ", "N", "o", "n", "e">>,
     <<"1", " ", "d", "g", "x", "0", "1", " ", "N", "o", "n", "e", " ", "e", "x", "t", "r", "a">>,
     <<" ", " ", "2", " ", " ", " ", "d", "g", "x", "[", "0", "1", "-", "0", "2", "]", " ", " ", " ", "(", "R", "e", "s", "o", "u", "r", "c", "e", "s", ")", " ", " ", "x", " ", "y", " ">>}
FullLines == {padded(f, widths) \o r : f \in FieldSets, r \in Remainders}
SampleLines == UNION {{SubSeq(l, 1, n) : n \in 0..Len(l)} : l \in FullLines}

\* ------------------------------------------- _parse_gpu_count, _parse_gpu_type
LowerCase == <<"a", "b", "c", "d", "e", "f", "g", "h", "i", "j", "k", "l", "m", "n", "o", "p", "q", "r", "s", "t", "u", "v", "w", "x", "y", "z">>
UpperCase == <<"A", "B", "C", "D", "E", "F", "G", "H", "I", "J", "K", "L", "M", "N", "O", "P", "Q", "R", "S", "T", "U", "V", "W", "X", "Y", "Z">>
LetterIndex(alphabet, ch) == CHOOSE i \in 1..26 : alphabet[i] = ch
IsLower(ch) == \E i \in 1..26 : LowerCase[i] = ch
IsUpper(ch) == \E i \in 1..26 : UpperCase[i] = ch
\* str.upper() and str.lower().
upper(t) == [i \in 1..Len(t) |->
                IF IsLower(t[i]) THEN UpperCase[LetterIndex(LowerCase, t[i])] ELSE t[i]]
to_lower(t) == [i \in 1..Len(t) |->
                   IF IsUpper(t[i]) THEN LowerCase[LetterIndex(UpperCase, t[i])] ELSE t[i]]
\* \w of the patterns.
IsWordChar(ch) == IsLower(ch) \/ IsUpper(ch) \/ ch \in Digits \/ ch = "_"

\* text has lit at 1-based position i.
At(text, i, lit) == i + Len(lit) - 1 <= Len(text) /\ SubSeq(text, i, i + Len(lit) - 1) = lit
\* The longest run of characters of a class from position i on: its length.
RECURSIVE run_of_digits(_, _)
run_of_digits(text, i) ==
    IF i <= Len(text) /\ text[i] \in Digits THEN 1 + run_of_digits(text, i + 1) ELSE 0
RECURSIVE run_of_word(_, _)
run_of_word(text, i) ==
    IF i <= Len(text) /\ IsWordChar(text[i]) THEN 1 + run_of_word(text, i + 1) ELSE 0

GresGpuColon == <<"g", "r", "e", "s", "/", "g", "p", "u", ":">>
GresGpuEquals == <<"g", "r", "e", "s", "/", "g", "p", "u", "=">>

\* re.search of the patterns of lines 26-30: the groups of the leftmost match,
\* <<>> when there is none.  TypedCount is gres/gpu:[\w\d]+:(\d+), with the
\* type and the count for groups.
TypedCountAt(text, i) ==
    LET w == run_of_word(text, i + 9)
        d == run_of_digits(text, i + 9 + w + 1)
    IN /\ At(text, i, GresGpuColon)
       /\ w > 0
       /\ At(text, i + 9 + w, <<":">>)
       /\ d > 0
TypedCount(text) ==
    IF \E i \in 1..Len(text) : TypedCountAt(text, i)
    THEN LET i == CHOOSE n \in 1..Len(text) :
                      TypedCountAt(text, n) /\ \A m \in 1..(n - 1) : ~TypedCountAt(text, m)
             w == run_of_word(text, i + 9)
             d == run_of_digits(text, i + 9 + w + 1)
         IN <<SubSeq(text, i + 9, i + 8 + w), SubSeq(text, i + 10 + w, i + 9 + w + d)>>
    ELSE <<>>
\* gres/gpu=(\d+) and gres/gpu:(\d+).
PlainCountAt(text, i, lit) == At(text, i, lit) /\ run_of_digits(text, i + 9) > 0
PlainCount(text, lit) ==
    IF \E i \in 1..Len(text) : PlainCountAt(text, i, lit)
    THEN LET i == CHOOSE n \in 1..Len(text) :
                      PlainCountAt(text, n, lit)
                      /\ \A m \in 1..(n - 1) : ~PlainCountAt(text, m, lit)
         IN <<SubSeq(text, i + 9, i + 8 + run_of_digits(text, i + 9))>>
    ELSE <<>>

NotAvailable == <<"N", "/", "A">>
Zero == <<"0">>
H100 == <<"H", "1", "0", "0">>
A100 == <<"A", "1", "0", "0">>
V100 == <<"V", "1", "0", "0">>

\* _parse_gpu_count, slurm_client.py:253-261.
parse_gpu_count_text(tres_field) ==
    IF tres_field = <<>> \/ tres_field = NotAvailable THEN Zero
    ELSE IF TypedCount(tres_field) # <<>> THEN TypedCount(tres_field)[2]
    ELSE IF PlainCount(tres_field, GresGpuEquals) # <<>>
    THEN PlainCount(tres_field, GresGpuEquals)[1]
    ELSE IF PlainCount(tres_field, GresGpuColon) # <<>>
    THEN PlainCount(tres_field, GresGpuColon)[1]
    ELSE Zero

\* _parse_gpu_type, slurm_client.py:263-279.
parse_gpu_type_text(tres_field) ==
    IF tres_field = <<>> \/ tres_field = NotAvailable THEN <<>>
    ELSE IF TypedCount(tres_field) # <<>>
    THEN LET gpu_type == upper(TypedCount(tres_field)[1])
         IN IF str_in(to_lower(H100), to_lower(gpu_type)) THEN H100
            ELSE IF str_in(to_lower(A100), to_lower(gpu_type)) THEN A100
            ELSE IF str_in(to_lower(V100), to_lower(gpu_type)) THEN V100
            ELSE gpu_type
    ELSE IF parse_gpu_count_text(tres_field) # Zero THEN H100
    ELSE <<>>

TresFields ==
    {<<>>,
     <<"N", "/", "A">>,
     <<"c", "p", "u", "=", "8", ",", "m", "e", "m", "=", "3", "2", "G", ",", "g", "r", "e", "s", "/", "g", "p", "u", "=", "2">>,
     <<"g", "r", "e", "s", "/", "g", "p", "u", ":", "h", "1", "0", "0", ":", "4">>,
     <<"c", "p", "u", "=", "4", ",", "g", "r", "e", "s", "/", "g", "p", "u", ":", "n", "v", "i", "d", "i", "a", "_", "a", "1", "0", "0", ":", "2", ",", "m", "e", "m", "=", "1", "G">>,
     <<"g", "r", "e", "s", "/", "g", "p", "u", ":", "4">>,
     <<"g", "r", "e", "s", "/", "g", "p", "u", ":", "r", "t", "x", "3", "0", "9", "0", ":", "1">>,
     <<"g", "r", "e", "s", "/", "g", "p", "u", ":", "h", "1", "0", "0", ":", "0">>,
     <<"g", "r", "e", "s", "/", "g", "p", "u", ":", "0", "0">>,
     <<"c", "p", "u", "=", "8", ",", "m", "e", "m", "=", "1", "6", "G">>,
     <<"g", "r", "e", "s", "/", "g", "p", "u", "=", "0">>,
     <<"g", "r", "e", "s", "/", "g", "p", "u", ":", "V", "1", "0", "0", ":", "8">>,
     <<"b", "i", "l", "l", "i", "n", "g", "=", "8", ",", "g", "r", "e", "s", "/", "g", "p", "u", ":", "t", "e", "s", "l", "a", ":", "2", ",", "g", "r", "e", "s", "/", "g", "p", "u", "=", "2">>}

\* get_jobs, slurm_client.py:111-112: the GPU count and type of a field.
ParseGpu ==
    /\ call.op = "parse_gpu" /\ call.pc = "call"
    /\ call' = [call EXCEPT !.pc = "done"]
    /\ result' = Return(<<parse_gpu_count_text(call.tres_field),
                          parse_gpu_type_text(call.tres_field)>>)
    /\ UNCHANGED <<commands, tools, appVars>>

\* ------------------------------- the GPU count of a node: the two parsers
Gpu == <<"g", "p", "u", ":">>
Null == <<"(", "n", "u", "l", "l", ")">>
Dash == <<"-">>

\* re.search of NODE_GPU_PATTERNS, slurm_client.py:31-34: the count group of
\* the leftmost match, <<>> when there is none.  NodeTypedCount is
\* gpu:[\w\d]+:(\d+), NodePlainCount is gpu:(\d+).
NodeTypedCountAt(text, i) ==
    LET w == run_of_word(text, i + 4)
    IN /\ At(text, i, Gpu)
       /\ w > 0
       /\ At(text, i + 4 + w, <<":">>)
       /\ run_of_digits(text, i + 5 + w) > 0
NodeTypedCount(text) ==
    IF \E i \in 1..Len(text) : NodeTypedCountAt(text, i)
    THEN LET i == CHOOSE n \in 1..Len(text) :
                      NodeTypedCountAt(text, n)
                      /\ \A m \in 1..(n - 1) : ~NodeTypedCountAt(text, m)
             w == run_of_word(text, i + 4)
         IN SubSeq(text, i + 5 + w, i + 4 + w + run_of_digits(text, i + 5 + w))
    ELSE <<>>
NodePlainCountAt(text, i) == At(text, i, Gpu) /\ run_of_digits(text, i + 4) > 0
NodePlainCount(text) ==
    IF \E i \in 1..Len(text) : NodePlainCountAt(text, i)
    THEN LET i == CHOOSE n \in 1..Len(text) :
                      NodePlainCountAt(text, n)
                      /\ \A m \in 1..(n - 1) : ~NodePlainCountAt(text, m)
         IN SubSeq(text, i + 4, i + 3 + run_of_digits(text, i + 4))
    ELSE <<>>

\* parse_node_gpu_info, slurm_client.py:281-289.
parse_node_gpu_info(gres_field) ==
    IF gres_field = <<>> \/ gres_field = Null \/ gres_field = NotAvailable THEN Zero
    ELSE IF NodeTypedCount(gres_field) # <<>> THEN NodeTypedCount(gres_field)
    ELSE IF NodePlainCount(gres_field) # <<>> THEN NodePlainCount(gres_field)
    ELSE Zero

\* _GPU_GRES_PATTERN, app.py:570: the length of a match of \((?:IDX|S):[^)]*\)
\* at the head of text, 0 when there is none.
suffix_at_head(text) ==
    LET open == IF At(text, 1, <<"(", "I", "D", "X", ":">>) THEN 5
                ELSE IF At(text, 1, <<"(", "S", ":">>) THEN 3 ELSE 0
        closes == {n \in (open + 1)..Len(text) : text[n] = ")"}
    IN IF open = 0 \/ closes = {} THEN 0
       ELSE CHOOSE n \in closes : \A m \in closes : n <= m

\* _GPU_GRES_PATTERN.sub("", gres_str), app.py:584.
RECURSIVE sub_suffixes(_)
sub_suffixes(text) ==
    IF text = <<>> THEN <<>>
    ELSE IF suffix_at_head(text) > 0
         THEN sub_suffixes(SubSeq(text, suffix_at_head(text) + 1, Len(text)))
         ELSE <<Head(text)>> \o sub_suffixes(Tail(text))

\* str.isdigit() on the texts of the model.
isdigit(part) == part # <<>> /\ \A i \in 1..Len(part) : part[i] \in Digits

\* SlurmDashboard._parse_gpu_count, app.py:572-591: the last part between
\* colons that is a number, 0 when there is none.
SlurmDashboard_parse_gpu_count(gres_str) ==
    IF gres_str = <<>> \/ gres_str \in {Null, Dash, NotAvailable} THEN 0
    ELSE LET parts == split(sub_suffixes(gres_str), ":")
             numeric == {i \in 1..Len(parts) : isdigit(parts[i])}
         IN IF numeric = {} THEN 0
            ELSE decimal(parts[CHOOSE i \in numeric : \A j \in numeric : j <= i])

\* GRES fields of nodes, as sinfo prints them.
GresFields ==
    {<<>>,
     <<"-">>,
     <<"N", "/", "A">>,
     <<"(", "n", "u", "l", "l", ")">>,
     <<"g", "p", "u", ":", "8">>,
     <<"g", "p", "u", ":", "h", "1", "0", "0", ":", "8">>,
     <<"g", "p", "u", ":", "8", "(", "S", ":", "0", "-", "1", ")">>,
     <<"g", "p", "u", ":", "(", "n", "u", "l", "l", ")", ":", "8", "(", "I", "D", "X", ":", "0", "-", "7", ")">>,
     <<"g", "p", "u", ":", "h", "1", "0", "0", ":", "4", ",", "m", "p", "s", ":", "1", "0", "0">>,
     <<"g", "p", "u", ":", "h", "1", "0", "0", ":", "4", "(", "I", "D", "X", ":", "0", "-", "3", ")", ",", "g", "p", "u", ":", "a", "1", "0", "0", ":", "2">>,
     <<"m", "p", "s", ":", "1", "0", "0">>,
     <<"g", "p", "u", ":", "h", "1", "0", "0", ":", "8", "(", "S", ":", "0", "-", "1", ")">>}

\* _format_gpu_bar, app.py:595-600, asks both parsers about a GRES field.
FormatGpuBar ==
    /\ call.op = "format_gpu_bar" /\ call.pc = "call"
    /\ call' = [call EXCEPT !.pc = "done"]
    /\ result' = Return([gpu_info |-> parse_node_gpu_info(call.gres),
                         total |-> SlurmDashboard_parse_gpu_count(call.gres)])
    /\ UNCHANGED <<commands, tools, appVars>>

\* ------------------------- count_nodes_from_nodelist, combine_nodelist_reason
\* PENDING_REASONS, slurm_client.py:39-47.
PENDING_REASONS ==
    {<<"D", "e", "p", "e", "n", "d", "e", "n", "c", "y">>,
     <<"R", "e", "s", "o", "u", "r", "c", "e", "s">>,
     <<"P", "r", "i", "o", "r", "i", "t", "y">>,
     <<"Q", "O", "S", "M", "a", "x", "J", "o", "b", "s", "P", "e", "r", "U", "s", "e", "r", "L", "i", "m", "i", "t">>,
     <<"A", "s", "s", "o", "c", "M", "a", "x", "J", "o", "b", "s", "L", "i", "m", "i", "t">>}
NoneText == <<"N", "o", "n", "e">>

\* str(n) for a number of tokens.
RECURSIVE str(_)
str(n) ==
    LET digit == CHOOSE d \in Digits : DigitValue(d) = n % 10
    IN IF n < 10 THEN <<digit>> ELSE Append(str(n \div 10), digit)

\* Lines 311 and 320: the text is neither empty nor blank.
non_blank(text) == text # <<>> /\ strip(text) # <<>>

\* The test of lines 313 and 321 as a comparison with the keywords.
is_pending_reason(nodelist) == nodelist \in PENDING_REASONS

\* Lines 313 and 321: any(reason in nodelist for reason in PENDING_REASONS).
has_pending_reason(nodelist) == \E reason \in PENDING_REASONS : str_in(reason, nodelist)

\* count_nodes_from_nodelist, slurm_client.py:309-316.
count_nodes_from_nodelist(nodelist) ==
    IF ~non_blank(nodelist) THEN Zero
    ELSE IF has_pending_reason(nodelist) THEN Zero
    ELSE str(Len(SelectSeq(split(nodelist, ","), LAMBDA n : strip(n) # <<>>)))

\* The test of line 323 without the comparison with "None".
reason_shown_even_none(reason) == non_blank(reason)

\* Line 323.
reason_shown(reason) == non_blank(reason) /\ reason # NoneText

\* combine_nodelist_reason, slurm_client.py:318-327.
combine_nodelist_reason(nodelist, reason) ==
    IF non_blank(nodelist) /\ ~has_pending_reason(nodelist) THEN nodelist
    ELSE IF reason_shown(reason) THEN reason
    ELSE IF non_blank(nodelist) THEN nodelist
    ELSE <<>>

NodeLists ==
    {<<>>,
     <<" ">>,
     <<"d", "g", "x", "0", "1">>,
     <<"d", "g", "x", "0", "1", ",", "d", "g", "x", "0", "2">>,
     <<"d", "g", "x", "0", "1", ",", " ", ",", "d", "g", "x", "0", "2", ",">>,
     <<"R", "e", "s", "o", "u", "r", "c", "e", "s">>,
     <<"(", "R", "e", "s", "o", "u", "r", "c", "e", "s", ")">>,
     <<"P", "r", "i", "o", "r", "i", "t", "y">>,
     <<"D", "e", "p", "e", "n", "d", "e", "n", "c", "y">>,
     <<"Q", "O", "S", "M", "a", "x", "J", "o", "b", "s", "P", "e", "r", "U", "s", "e", "r", "L", "i", "m", "i", "t">>,
     <<"A", "s", "s", "o", "c", "M", "a", "x", "J", "o", "b", "s", "L", "i", "m", "i", "t">>,
     <<"d", "g", "x", "[", "0", "1", "-", "0", "4", "]">>,
     <<",">>,
     <<"N", "o", "n", "e">>,
     <<"r", "e", "s", "o", "u", "r", "c", "e", "s">>,
     <<"n", "1", ",", "P", "r", "i", "o", "r", "i", "t", "y">>}
Reasons ==
    {<<>>,
     <<" ">>,
     <<"N", "o", "n", "e">>,
     <<"R", "e", "s", "o", "u", "r", "c", "e", "s">>,
     <<"P", "r", "i", "o", "r", "i", "t", "y">>,
     <<" ", "N", "o", "n", "e">>,
     <<"n", "o", "n", "e">>}

CountNodes ==
    /\ call.op = "count_nodes_from_nodelist" /\ call.pc = "call"
    /\ call' = [call EXCEPT !.pc = "done"]
    /\ result' = Return(count_nodes_from_nodelist(call.nodelist))
    /\ UNCHANGED <<commands, tools, appVars>>

CombineNodelistReason ==
    /\ call.op = "combine_nodelist_reason" /\ call.pc = "call"
    /\ call' = [call EXCEPT !.pc = "done"]
    /\ result' = Return(combine_nodelist_reason(call.nodelist, call.reason))
    /\ UNCHANGED <<commands, tools, appVars>>

ParseInit ==
    /\ tools = [squeue |-> TRUE, sinfo |-> TRUE, scontrol |-> TRUE, scancel |-> TRUE]
    /\ call \in {[op |-> "parse_squeue_output_line", pc |-> "call", line |-> l] :
                    l \in SampleLines}
               \cup {[op |-> "parse_gpu", pc |-> "call", tres_field |-> t] :
                        t \in TresFields}
               \cup {[op |-> "count_nodes_from_nodelist", pc |-> "call",
                       nodelist |-> n] : n \in NodeLists}
               \cup {[op |-> "combine_nodelist_reason", pc |-> "call",
                       nodelist |-> n, reason |-> r] :
                        n \in NodeLists, r \in Reasons}
               \cup {[op |-> "format_gpu_bar", pc |-> "call", gres |-> g] :
                        g \in GresFields}
    /\ commands = <<>>
    /\ result = NoResult

ParseSqueueOutputLine ==
    /\ call.op = "parse_squeue_output_line" /\ call.pc = "call"
    /\ call' = [call EXCEPT !.pc = "done"]
    /\ result' = Return(parse_squeue_output_line_text(call.line))
    /\ UNCHANGED <<commands, tools, appVars>>

InitParse == AppInit /\ ParseInit
NextParse ==
    \/ ParseSqueueOutputLine
    \/ ParseGpu
    \/ CountNodes
    \/ CombineNodelistReason
    \/ FormatGpuBar
SpecParse == InitParse /\ [][NextParse]_vars

\* ================================================================ the settings
\* Config, config.py:10-53.  A Python value is [t, v]: its type and its text;
\* a JSON value is [j, v]: the kind of token and its text.  A file is missing,
\* or holds a text that is no JSON, or a JSON document.
PyNone == [t |-> "None", v |-> "None"]
PyStr(s) == [t |-> "str", v |-> s]
PyFloat(x) == [t |-> "float", v |-> x]
JsonNull == [j |-> "null", v |-> "null"]
JsonString(s) == [j |-> "string", v |-> s]
JsonNumber(x) == [j |-> "number", v |-> x]

Fields == <<"refresh_sec", "user_filter", "partition_filter", "state_filter", "theme">>
FieldNames == {Fields[i] : i \in 1..Len(Fields)}

\* Lines 14-18: the defaults of the dataclass.
Default(name) ==
    CASE name = "refresh_sec" -> PyFloat("5.0")
      [] name = "theme" -> PyStr("dark")
      [] OTHER -> PyNone
Defaults == [name \in FieldNames |-> Default(name)]

\* json.dump and json.load on a value.
to_json(value) ==
    CASE value.t = "None" -> JsonNull
      [] value.t = "str" -> JsonString(value.v)
      [] OTHER -> JsonNumber(value.v)
from_json(token) ==
    CASE token.j = "null" -> PyNone
      [] token.j = "string" -> PyStr(token.v)
      [] OTHER -> PyFloat(token.v)

Missing == [kind |-> "missing", members |-> <<>>]
Garbage == [kind |-> "garbage", members |-> <<>>]
JsonArray == [kind |-> "array", members |-> <<>>]
JsonObject(members) == [kind |-> "object", members |-> members]

\* Line 51: json.dump(asdict(self), f): an object with the five fields.
dump(config) ==
    JsonObject([i \in 1..Len(Fields) |-> <<Fields[i], to_json(config[Fields[i]])>>])

\* data.get(name, default) on the object read.
data_get(members, name) ==
    IF \E i \in 1..Len(members) : members[i][1] = name
    THEN from_json(members[CHOOSE i \in 1..Len(members) : members[i][1] = name][2])
    ELSE IF name \in {"refresh_sec", "theme"} THEN Default(name) ELSE PyNone

\* Config.load, config.py:26-43.  json.load raises JSONDecodeError on a text
\* that is no JSON, which is caught; on a document that is no object,
\* data.get raises AttributeError, which is not.
load(file) ==
    CASE file.kind = "missing" -> Return(Defaults)
      [] file.kind = "garbage" -> Return(Defaults)
      [] file.kind = "object" ->
            Return([name \in FieldNames |-> data_get(file.members, name)])
      [] OTHER -> Raise("AttributeError", <<"'list' object has no attribute 'get'">>)

Configs ==
    [refresh_sec : {PyFloat("5.0"), PyFloat("15.0")},
     user_filter : {PyNone, PyStr("alice")},
     partition_filter : {PyNone, PyStr("gpu")},
     state_filter : {PyNone},
     theme : {PyStr("dark"), PyStr("light")}]

\* What may stand in the file without a save of this program: nothing, a text
\* that is no JSON, a JSON array, an object with one field.
ForeignFiles ==
    {Missing, Garbage, JsonArray, JsonObject(<<>>),
     JsonObject(<< <<"theme", JsonString("light")>> >>)}

ConfigInit ==
    /\ tools = [squeue |-> TRUE, sinfo |-> TRUE, scontrol |-> TRUE, scancel |-> TRUE]
    /\ call \in {[op |-> "config", file |-> f, last |-> "foreign", saved |-> Defaults,
                  loaded |-> FALSE] : f \in ForeignFiles}
    /\ commands = <<>>
    /\ result = NoResult

\* Config.save, config.py:45-53: IOError on opening the file leaves it as it
\* was and is swallowed.
ConfigSave(config, written) ==
    /\ call.op = "config"
    /\ call' = IF written
               THEN [call EXCEPT !.file = dump(config), !.last = "save",
                                 !.saved = config, !.loaded = FALSE]
               ELSE [call EXCEPT !.loaded = FALSE]
    /\ result' = NoResult
    /\ UNCHANGED <<commands, tools, appVars>>

\* Something else writes or removes the file.
ConfigForeign(file) ==
    /\ call.op = "config"
    /\ call' = [call EXCEPT !.file = file, !.last = "foreign", !.loaded = FALSE]
    /\ result' = NoResult
    /\ UNCHANGED <<commands, tools, appVars>>

ConfigLoad ==
    /\ call.op = "config"
    /\ call' = [call EXCEPT !.loaded = TRUE]
    /\ result' = load(call.file)
    /\ UNCHANGED <<commands, tools, appVars>>

InitConfig == AppInit /\ ConfigInit
NextConfig ==
    \/ \E config \in Configs, written \in BOOLEAN : ConfigSave(config, written)
    \/ \E file \in ForeignFiles : ConfigForeign(file)
    \/ ConfigLoad
SpecConfig == InitConfig /\ [][NextConfig]_vars

\* ============================================ the load of a job's details
\* _load_job_details with the client beneath it: commands holds the commands
\* the load has run so far.

\* get_job_detail without scontrol, slurm_client.py:147-148: a text of two
\* lines, none of them with a path.
MockDetailLines == << <<Word("Mock details for Job", "")>>,
                      <<Word("User", "alice"), Word("State", "RUNNING")>> >>

\* A load that hands no detail to get_job_output.
output_detail_arg_none(detail) == [given |-> FALSE, text |-> <<>>]

\* _load_job_details, app.py:732: the detail handed to get_job_output is the
\* text that get_job_detail returned.
output_detail_arg(detail) == [given |-> TRUE, text |-> detail]

\* _load_job_details, app.py:718-721: detail and script are asked for at once.
LoadJobDetails ==
    /\ call.pc = "done"
    /\ IF tools.scontrol
       THEN /\ commands' = <<ShowJob, WriteScript>>
            /\ call' = [op |-> "_load_job_details", pc |-> "gather",
                        got_detail |-> FALSE, got_script |-> FALSE,
                        detail |-> <<>>, script |-> <<>>]
       ELSE /\ commands' = <<>>
            /\ call' = [op |-> "_load_job_details", pc |-> "gather",
                        got_detail |-> TRUE, got_script |-> TRUE,
                        detail |-> MockDetailLines, script |-> NoScontrol]
    /\ result' = NoResult
    /\ UNCHANGED <<tools, appVars>>

\* scontrol show job is over: get_job_detail returns its text.
LoadJobDetailReturns(rc, out) ==
    /\ call.op = "_load_job_details" /\ call.pc = "gather"
    /\ ~call.got_detail
    /\ call' = [call EXCEPT !.got_detail = TRUE, !.detail = get_job_detail(rc, out)]
    /\ UNCHANGED <<commands, result, tools, appVars>>

\* scontrol write batch_script is over: get_job_script returns its text.
LoadJobScriptReturns(rc, out) ==
    /\ call.op = "_load_job_details" /\ call.pc = "gather"
    /\ ~call.got_script
    /\ call' = [call EXCEPT !.got_script = TRUE,
                            !.script = get_job_script_result(rc, out).value]
    /\ UNCHANGED <<commands, result, tools, appVars>>

\* _load_job_details, app.py:723-732: the gather returned; the load ends there
\* when the selection is another job by now (current = FALSE), and goes on to
\* get_job_output(jobid, detail=detail) otherwise (slurm_client.py:178-179,
\* 200: a detail that is None is fetched).
LoadJobOutput(current) ==
    /\ call.op = "_load_job_details" /\ call.pc = "gather"
    /\ call.got_detail /\ call.got_script
    /\ IF ~current
       THEN /\ call' = [op |-> "_load_job_details", pc |-> "done"]
            /\ result' = Return(<<"stale">>)
            /\ UNCHANGED commands
       ELSE LET arg == output_detail_arg(call.detail)
            IN IF ~arg.given /\ tools.scontrol
               THEN /\ call' = [op |-> "get_job_output", pc |-> "detail",
                                arg |-> arg]
                    /\ commands' = commands \o <<ShowJob>>
                    /\ result' = NoResult
               ELSE get_job_output(arg, arg.text, commands)
    /\ UNCHANGED <<tools, appVars>>

InitLoad == AppInit /\ ClientInit

NextLoad ==
    \/ LoadJobDetails
    \/ \E rc \in ExitCodes, out \in DetailTexts : LoadJobDetailReturns(rc, out)
    \/ \E rc \in ExitCodes, out \in OutTexts : LoadJobScriptReturns(rc, out)
    \/ \E current \in BOOLEAN : LoadJobOutput(current)
    \/ \E s \in Streams, e \in ReadEnds : GetJobOutputReadDone(s, e)

SpecLoad == InitLoad /\ [][NextLoad]_vars

\* ================================================================ properties
\* A step in which a key press reaches the App.
KeyPressed == key_event' # key_event

\* A step in which on_key hands a job id to cancel_job.
CancelInvoked == handler.pc # "cancel_job" /\ handler'.pc = "cancel_job"

\* C1. Two-step cancel: cancel_job is invoked for a job id only by a press of
\* the cancel key that directly follows a press of the cancel key which armed
\* the pending confirmation for that job id; a pending confirmation is armed
\* only by the cancel key; and any other key pressed while a confirmation is
\* pending clears it and invokes no cancel.
C1_TwoStepCancel ==
    [][ /\ CancelInvoked =>
              /\ KeyPressed
              /\ key_event'.key = "c"
              /\ key_event.key = "c"
              /\ pending_cancel_jobid # None
              /\ handler'.jobid = pending_cancel_jobid
        /\ (pending_cancel_jobid' # None
              /\ pending_cancel_jobid' # pending_cancel_jobid) =>
              key_event'.key = "c"
        /\ (KeyPressed /\ key_event'.key # "c" /\ pending_cancel_jobid # None) =>
              /\ pending_cancel_jobid' = None
              /\ ~CancelInvoked
      ]_vars

\* cancel_job is running for job 102, after two presses of the cancel key.
C1_Witness ==
    /\ handler.pc = "cancel_job"
    /\ handler.jobid = "102"
    /\ key_event.key = "c"
    /\ pending_cancel_jobid = None

\* The rows of the jobs table that show the selected job.
SelectedRows == {i \in 1..Len(jobs_table) : jobs_table[i].jobid = current_jobid}

\* C2. Real-time output polling is effective only if the user wants real-time
\* and the selected job's state is RUNNING or PENDING.
C2_EffectiveOnlyIfActive ==
    output_refresh_enabled =>
        /\ user_wants_realtime
        /\ \E i \in SelectedRows : can_refresh(jobs_table[i])

\* C3. The results of a load started for job J are applied to the display only
\* if the selection is still J when the load resumes; a load resumed after the
\* selection changed leaves the detail, the output and the status as they are.
C3_StaleLoadDropped ==
    [][ \A w \in load_workers, o \in Outcomes :
            /\ LoadDetailDone(w, o) =>
                  /\ detail_view' # detail_view => w.jobid = current_jobid
                  /\ w.jobid # current_jobid =>
                        UNCHANGED <<detail_view, output_view, status>>
            /\ LoadOutputDone(w, o) =>
                  /\ output_view' # output_view => w.jobid = current_jobid
                  /\ w.jobid # current_jobid =>
                        UNCHANGED <<detail_view, output_view, status>>
      ]_vars

\* A load of job 101 is suspended at its first await while the selection has
\* become job 102.
C3_Witness ==
    /\ current_jobid = "102"
    /\ \E w \in load_workers : w.jobid = "101" /\ w.pc = "gather"

\* C4. A refresh tick that fires while a cycle started by an earlier tick is
\* still running is dropped: no second cycle starts, and the running cycle goes
\* on.
C4_TickDropped ==
    [][ (ScheduleRefresh /\ LiveRefreshWorkers # {}) =>
            refresh_workers' = refresh_workers
      ]_vars

\* A cycle whose gather raised: one of its listings failed.
FailedCycle(c) == c.pc = "gather" /\ (c.jobs = "fail" \/ c.nodes = "fail")
\* A cycle whose gather returned: both listings are there.
CompleteCycle(c) == c.pc = "gather" /\ c.jobs = "ok" /\ c.nodes = "ok"

C6_AtomicDoubleSwap ==
    [][ (sort_column' = sort_column /\ sort_reverse' = sort_reverse
           /\ <<jobs_table, nodes_table>>' # <<jobs_table, nodes_table>>) =>
            /\ \/ CompleteCycle(direct) /\ direct'.pc # "gather"
               \/ \E w \in refresh_workers \ refresh_workers' :
                      CompleteCycle(w) /\ ~w.cancelled
            /\ last_refresh_time' = last_refresh_time + 1
            /\ \E jobs \in JobListings, nodes \in NodeListings :
                  /\ nodes_table' = nodes
                  /\ jobs_table' = IF sort_column = None THEN jobs
                                   ELSE SortRows(jobs, sort_column, sort_reverse)
      ]_vars

\* The second successful refresh has run under a descending sort: the rows of
\* the listing are shown in reverse.
C6_Witness ==
    /\ last_refresh_time = 2
    /\ status = Msg("Updated", None)
    /\ sort_column = "JOBID" /\ sort_reverse
    /\ Len(jobs_table) = 2 /\ jobs_table[1].jobid = "102"

\* The commands of the call under way include command c.
Ran(c) == \E i \in 1..Len(commands) : commands[i] = c

\* Text t is text e without the whitespace around it.
Stripped(t, e) ==
    \E i \in 1..Len(e), j \in 1..Len(e) :
        /\ t = SubSeq(e, i, j)
        /\ e[i] \notin Whitespace /\ e[j] \notin Whitespace
        /\ \A k \in 1..Len(e) : (k < i \/ k > j) => e[k] \in Whitespace

\* C7. get_jobs runs the basic-format command if and only if the primary
\* command ended with a non-zero exit code (124, the timeout, included); it
\* raises "squeue failed: ..." with the stderr of the basic-format command
\* (its surrounding whitespace removed; "unknown error" when nothing is left)
\* if and only if both commands ended non-zero; otherwise its records carry the
\* columns of the command that succeeded.
C7_ListJobsProtocol ==
    (call.op = "get_jobs" /\ Ran(Primary)) =>
        /\ Ran(Fallback) <=> ("rc1" \in DOMAIN call /\ call.rc1 # 0)
        /\ call.pc = "done" =>
              /\ result.kind = "raise" <=>
                     (call.rc1 # 0 /\ "rc2" \in DOMAIN call /\ call.rc2 # 0)
              /\ result.kind = "raise" =>
                    /\ result.exc = "RuntimeError"
                    /\ Head(result.text) = "squeue failed: "
                    /\ \/ Stripped(Tail(result.text), call.err2)
                       \/ /\ Tail(result.text) = <<"unknown error">>
                          /\ \A k \in 1..Len(call.err2) : call.err2[k] \in Whitespace
              /\ result.kind = "return" =>
                    /\ Len(result.value) =
                           Cardinality({i \in 1..Len(call.out) :
                                            IF call.rc1 = 0 THEN call.out[i] # <<>>
                                            ELSE Len(call.out[i]) >= 8})
                    /\ \A i \in 1..Len(result.value) :
                           /\ result.value[i].keys =
                                  (IF call.rc1 = 0 THEN cols ELSE basic_cols)
                           /\ DOMAIN result.value[i].cells
                                  = 1..Len(result.value[i].keys)

\* Both commands failed, the first by timeout: get_jobs has raised with the
\* stderr of the second, stripped.
C7_Witness ==
    /\ call.op = "get_jobs" /\ call.pc = "done"
    /\ "rc2" \in DOMAIN call
    /\ call.rc1 = 124 /\ call.err1 = <<"e">>
    /\ call.rc2 = 1 /\ call.err2 = <<" ", "f", "\n">>
    /\ result = Raise("RuntimeError", <<"squeue failed: ", "f">>)

\* C8. SlurmClient(..., mock_mode=False) raises RuntimeError "Slurm commands
\* not found" when none of the scheduler tools is found, and
\* SlurmClient(mock_mode=True) raises nothing and records _mock_mode = True.
C8_StrictMockPolicy ==
    call.op = "init" =>
        /\ (call.mock_mode = "False" /\ \A n \in ToolNames : ~which(call.cmds, n)) =>
              /\ result.kind = "raise"
              /\ result.exc = "RuntimeError"
              /\ result.text = <<"Slurm commands not found">>
        /\ call.mock_mode = "True" =>
              /\ result.kind = "return"
              /\ "_mock_mode" \in DOMAIN result.value

\* The detail text has neither a StdOut= nor a StdErr= marker.
NoMarkers(detail) ==
    \A i \in 1..Len(detail) :
        ~HasKey(detail[i], "StdOut") /\ ~HasKey(detail[i], "StdErr")

\* C9. get_job_output for a job whose detail text has neither a StdOut= nor a
\* StdErr= marker returns ("", "") and reads no file.
C9_NoMarkersEmptyPair ==
    (call.op = "get_job_output" /\ call.pc = "done" /\ tools.scontrol
       /\ NoMarkers(call.detail)) =>
        /\ result = Return(<<Empty, Empty>>)
        /\ \A s \in Streams : ~Ran(Tail_n(call.paths[s]))

\* C10. For each of the two output paths: an empty path or /dev/null yields
\* the empty content and no read; a read that ends non-zero or raises yields a
\* descriptive text, and get_job_output raises nothing.
C10_PerPathContent ==
    (call.op = "get_job_output" /\ call.pc = "done" /\ tools.scontrol) =>
        /\ result.kind = "return"
        /\ \A s \in Streams :
              /\ no_read(call.paths[s]) =>
                    /\ result.value[s] = Empty
                    /\ ~Ran(Tail_n(call.paths[s]))
              /\ ("ends" \in DOMAIN call /\ call.ends[s] \in {"failed", "exception"}) =>
                    /\ result.value[s] # Empty
                    /\ Head(result.value[s]) \in {"Could not read file: ",
                                                  "Error reading file: "}

\* C11. Whatever the exit code of scontrol (0, non-zero, 124 for a timeout),
\* get_job_detail returns a text: the output without the whitespace around it
\* on exit code 0, else "Failed to get job detail: ..." with the stderr; and
\* get_job_script returns the script text (exit code 0 and an output that is
\* not blank) or "(No script stored by controller)"; neither raises.
C11_AdvisoryNeverRaises ==
    (call.op \in AdvisoryOps /\ call.pc = "done" /\ Ran(IF call.op = "get_job_detail"
                                                         THEN ShowJob ELSE WriteScript)) =>
        /\ result.kind = "return"
        /\ call.op = "get_job_detail" =>
              IF call.rc = 0
              THEN \/ Stripped(result.value, call.out)
                   \/ /\ result.value = <<>>
                      /\ \A k \in 1..Len(call.out) : call.out[k] \in Whitespace
              ELSE /\ result.value # <<>>
                   /\ Head(result.value) = "Failed to get job detail: "
        /\ call.op = "get_job_script" =>
              IF call.rc = 0 /\ \E k \in 1..Len(call.out) : call.out[k] \notin Whitespace
              THEN /\ result.value # NoScript
                   /\ \E n \in 1..Len(call.out) :
                          /\ result.value = SubSeq(call.out, 1, n)
                          /\ call.out[n] \notin Whitespace
                          /\ \A k \in (n + 1)..Len(call.out) : call.out[k] \in Whitespace
              ELSE result.value = NoScript

\* scontrol show job timed out: get_job_detail has returned the error text.
C11_Witness ==
    /\ call.op = "get_job_detail" /\ call.pc = "done"
    /\ "rc" \in DOMAIN call
    /\ call.rc = 124
    /\ call.err = <<" ", "f", "\n">>
    /\ result = Return(<<"Failed to get job detail: ", "f">>)

\* C12. cancel_job returns success exactly when scancel was run and ended
\* with exit code 0; the message is then the confirmation naming the job, and
\* otherwise the stderr of scancel, or a fixed text when that is blank or
\* scancel is missing.
C12_CancelJobResult ==
    (call.op = "cancel_job" /\ call.pc = "done") =>
        /\ result.kind = "return"
        /\ result.value[1] <=> (Ran(Scancel) /\ call.rc = 0)
        /\ result.value[1] => result.value[2] = Cancelled
        /\ ~result.value[1] =>
              IF ~Ran(Scancel) THEN result.value[2] = <<"scancel command not found">>
              ELSE \/ Stripped(result.value[2], call.err)
                   \/ /\ result.value[2] = <<"Unknown error">>
                      /\ \A k \in 1..Len(call.err) : call.err[k] \in Whitespace

\* scancel timed out: cancel_job has returned failure with its stderr.
C12_Witness ==
    /\ call.op = "cancel_job" /\ call.pc = "done"
    /\ "rc" \in DOMAIN call
    /\ call.rc = 124
    /\ result = Return(<<FALSE, <<"e">> >>)

\* The cell of a row in an integer column is a number: int() accepts it.
Numeric(row) == IntOf(row.cpus) >= 0

\* C13: when the jobs table is sorted on a numeric column, in either
\* direction, every row whose cell is no number comes after every row whose
\* cell is a number.
C13_NonNumericLast ==
    sort_column \in INT_COLUMNS =>
        \A i, j \in 1..Len(jobs_table) :
            (~Numeric(jobs_table[i]) /\ Numeric(jobs_table[j])) => j < i

\* The position of a row in a table whose rows are distinct.
Pos(rows, r) == CHOOSE i \in 1..Len(rows) : rows[i] = r
Reverse(rows) == [i \in 1..Len(rows) |-> rows[Len(rows) + 1 - i]]
Toggle(col) == on_data_table_header_selected(col) /\ sort_column = col

\* C14 as stated: selecting the header of the numeric sort column again
\* leaves the rows in exactly the reverse of their order, equal keys or not.
C14_ToggleReversesExactly ==
    [][\A col \in INT_COLUMNS : Toggle(col) => jobs_table' = Reverse(jobs_table)]_vars

\* C14, amended: selecting the header of the numeric sort column again
\* reverses the order of every two rows whose sort keys differ and keeps the
\* order of every two rows whose sort keys are equal, so the row order is
\* exactly reversed when no two rows have the same key.
C14_ToggleReversesDistinctKeys ==
    [][\A col \in INT_COLUMNS : Toggle(col) =>
          /\ Len(jobs_table') = Len(jobs_table)
          /\ \A i, j \in 1..Len(jobs_table) :
                i < j =>
                    LET a == jobs_table[i]
                        b == jobs_table[j]
                    IN /\ {a, b} \subseteq {jobs_table'[n] : n \in 1..Len(jobs_table')}
                       /\ IF sort_key(col, a) = sort_key(col, b)
                          THEN Pos(jobs_table', a) < Pos(jobs_table', b)
                          ELSE Pos(jobs_table', b) < Pos(jobs_table', a)
          /\ (\A i, j \in 1..Len(jobs_table) :
                    i # j => sort_key(col, jobs_table[i]) # sort_key(col, jobs_table[j]))
                => jobs_table' = Reverse(jobs_table)]_vars

\* The numeric sort column has been toggled to ascending on a table with two
\* rows of the same key and one of another.
C14_Witness ==
    /\ sort_column \in INT_COLUMNS
    /\ ~sort_reverse
    /\ status = Msg("Sorted by", sort_column)
    /\ \E i, j, n \in 1..Len(jobs_table) :
          /\ i < j
          /\ sort_key(sort_column, jobs_table[i]) = sort_key(sort_column, jobs_table[j])
          /\ sort_key(sort_column, jobs_table[n]) # sort_key(sort_column, jobs_table[i])

\* C15: selecting the header of the sort column flips the direction and keeps
\* the column; selecting another header makes it the sort column, descending
\* for GPUs, CPUS, Nodes and MEM and ascending for every other column,
\* whatever the direction was.
C15_SortStateMachine ==
    [][\A col \in SortHeaders : on_data_table_header_selected(col) =>
          /\ sort_column' = col
          /\ sort_reverse' = IF sort_column = col THEN ~sort_reverse
                             ELSE col \in {"GPUs", "CPUS", "Nodes", "MEM"}]_vars

\* The MEM header has been selected on three rows and the table is sorted
\* descending on it, the row without a memory figure first.
C15_Witness ==
    /\ sort_column = "MEM"
    /\ sort_reverse
    /\ status = Msg("Sorted by", "MEM")
    /\ Len(jobs_table) = 3
    /\ jobs_table[1].mem = ""

\* The conditions of a filter that are set, as one conjunction.
Applied == call.op = "apply_jobs" /\ call.pc = "done"
Contains(text, pat) ==
    \E i \in 0..(Len(text) - Len(pat)) : SubSeq(text, i + 1, i + Len(pat)) = pat
UserField(r) ==
    IF "USERNAME" \in DOMAIN r /\ r["USERNAME"] # <<>> THEN r["USERNAME"]
    ELSE IF "USER" \in DOMAIN r THEN r["USER"] ELSE <<>>
Field(r, key) == IF key \in DOMAIN r THEN r[key] ELSE <<>>
IsSet(o) == o.given /\ o.text # <<>>
UserCondition(f, r) == IsSet(f.user) => lower(UserField(r)) = lower(f.user.text)
PartitionCondition(f, r) ==
    IsSet(f.partition) => Contains(lower(Field(r, "PARTITION")), lower(f.partition.text))
StateCondition(f, r) ==
    IsSet(f.state) => Contains(lower(Field(r, "STATE")), lower(f.state.text))
TextCondition(f, r) ==
    f.text # <<>> => \E k \in DOMAIN r : Contains(lower(r[k]), lower(f.text))
AllConditions(f, r) ==
    /\ UserCondition(f, r)
    /\ PartitionCondition(f, r)
    /\ StateCondition(f, r)
    /\ TextCondition(f, r)
Orders == {o \in [1..4 -> Passes] : \A i, j \in 1..4 : i # j => o[i] # o[j]}
Records(rows) == {rows[i] : i \in 1..Len(rows)}

\* C16: apply_jobs returns exactly the records that satisfy every set
\* condition of the filter, and the four narrowing passes leave the same
\* records in whatever order they are applied.
C16_FilterComposition ==
    Applied =>
        /\ result = Return(SelectSeq(call.rows, LAMBDA r : AllConditions(call.filter, r)))
        /\ \A o \in Orders :
              Records(narrow_all(o, call.filter, call.rows)) = Records(result.value)

\* A filter with all four conditions set has been applied to two records,
\* and kept one of them.
C16_Witness ==
    /\ Applied
    /\ IsSet(call.filter.user) /\ IsSet(call.filter.partition)
    /\ IsSet(call.filter.state) /\ call.filter.text # <<>>
    /\ Len(call.rows) = 2
    /\ Len(result.value) = 1

\* A filter with one condition set and the other three unset.
OnlyUser(f) ==
    IsSet(f.user) /\ ~IsSet(f.partition) /\ ~IsSet(f.state) /\ f.text = <<>>
OnlyPartition(f) ==
    ~IsSet(f.user) /\ IsSet(f.partition) /\ ~IsSet(f.state) /\ f.text = <<>>
OnlyState(f) ==
    ~IsSet(f.user) /\ ~IsSet(f.partition) /\ IsSet(f.state) /\ f.text = <<>>
Kept(r) == r \in Records(result.value)

\* C17: a record passes the user condition exactly when its user, USERNAME
\* or else USER, equals the filter's ignoring case, and the partition and
\* state conditions exactly when the filter's value is a substring of the
\* field ignoring case.
C17_FilterPredicates ==
    Applied =>
        \A i \in 1..Len(call.rows) :
            LET r == call.rows[i]
                f == call.filter
            IN /\ Kept(r) /\ IsSet(f.user) => lower(UserField(r)) = lower(f.user.text)
               /\ OnlyUser(f) => (Kept(r) <=> lower(UserField(r)) = lower(f.user.text))
               /\ OnlyPartition(f) =>
                     (Kept(r) <=> Contains(lower(Field(r, "PARTITION")),
                                           lower(f.partition.text)))
               /\ OnlyState(f) =>
                     (Kept(r) <=> Contains(lower(Field(r, "STATE")), lower(f.state.text)))

\* The user filter "a" has dropped a record of user "al", and nothing is
\* left.
C17_Witness ==
    /\ Applied
    /\ OnlyUser(call.filter)
    /\ call.filter.user.text = <<"a">>
    /\ \E i \in 1..Len(call.rows) : UserField(call.rows[i]) = <<"a", "l">>
    /\ result.value = <<>>

\* C18: once the user has lengthened or shortened the refresh interval, it
\* lies between 1 and 60 seconds, whatever interval the command line gave.
C18_IntervalClamped ==
    status[1] = "Refresh interval" => (Sec(1) <= refresh_sec /\ refresh_sec <= Sec(60))

\* The forms D-HH:MM:SS, HH:MM:SS and MM:SS: fields of decimal digits, and
\* the seconds that a text of one of the forms stands for.
IsNumber(t) == t # <<>> /\ \A i \in 1..Len(t) : t[i] \in Digits
Dashes(t) == {i \in 1..Len(t) : t[i] = "-"}
Clock(t) == split(t, ":")
IsClock(t, n) == Len(Clock(t)) = n /\ \A i \in 1..n : IsNumber(Clock(t)[i])
DayPart(t) == SubSeq(t, 1, (CHOOSE i \in Dashes(t) : TRUE) - 1)
ClockPart(t) == SubSeq(t, (CHOOSE i \in Dashes(t) : TRUE) + 1, Len(t))
IsDHMS(t) == Cardinality(Dashes(t)) = 1 /\ IsNumber(DayPart(t)) /\ IsClock(ClockPart(t), 3)
IsHMS(t) == Dashes(t) = {} /\ IsClock(t, 3)
IsMS(t) == Dashes(t) = {} /\ IsClock(t, 2)
Seconds(t) ==
    IF IsDHMS(t)
    THEN decimal(DayPart(t)) * 86400 + decimal(Clock(ClockPart(t))[1]) * 3600
         + decimal(Clock(ClockPart(t))[2]) * 60 + decimal(Clock(ClockPart(t))[3])
    ELSE IF IsHMS(t)
    THEN decimal(Clock(t)[1]) * 3600 + decimal(Clock(t)[2]) * 60 + decimal(Clock(t)[3])
    ELSE decimal(Clock(t)[1]) * 60 + decimal(Clock(t)[2])
Parsed == call.op = "parse_time_to_seconds" /\ call.pc = "done"

\* C20: parse_time_to_seconds returns the seconds of a text of the form
\* D-HH:MM:SS, HH:MM:SS or MM:SS, and -1 for every other text; it never
\* returns a negative number other than -1.
C20_ParseTimeToSeconds ==
    Parsed =>
        /\ result.value = IF IsDHMS(call.time_str) \/ IsHMS(call.time_str)
                              \/ IsMS(call.time_str)
                          THEN Seconds(call.time_str) ELSE 0 - 1
        /\ result.value >= 0 - 1

\* C19: calculate_time_ratio returns -1 when the used time parses to -1 or the
\* limit parses to -1 or to no more than 0, and otherwise the used seconds
\* over the limit seconds, a ratio that is not negative.
C19_TimeRatio ==
    call.op = "calculate_time_ratio" /\ call.pc = "done" =>
        LET used == parse_time_to_seconds(call.time_used)
            limit == parse_time_to_seconds(call.time_limit)
        IN IF used = 0 - 1 \/ limit <= 0
           THEN result.value = MinusOne
           ELSE result.value = Ratio(used, limit) /\ result.value.num >= 0

\* C21: when the timeout passes before the command has finished, run_cmd
\* returns the exit code 124, an empty stdout and a stderr text that contains
\* "Timeout"; it has sent the interrupt to the subprocess (unless the
\* subprocess had ended already), it does not wait for the subprocess to
\* exit, and it does not raise.
C21_TimeoutResult ==
    [][TimedOut =>
          /\ result'.kind = "return"
          /\ result'.value[1] = 124
          /\ result'.value[2] = <<>>
          /\ \E i \in 1..Len(result'.value[3]) : result'.value[3][i] = "Timeout"
          /\ call'.pc = "done"
          /\ call'.proc = call.proc
          /\ call.proc = "running" => call'.signals = <<SIGINT>>]_vars

\* run_cmd has returned for a timeout while the subprocess, interrupted, is
\* still running.
C21_Witness ==
    /\ call.op = "run_cmd" /\ call.pc = "done"
    /\ call.timed_out
    /\ call.proc = "running"
    /\ call.signals = <<SIGINT>>
    /\ result.kind = "return"

\* The waits of the feed's history follow the backoff: 1 second at first and
\* after a connection made, else twice the wait before, 30 at most.
BackoffFollowed ==
    call.op = "connect" =>
        \A i \in 1..Len(call.log) :
            call.log[i] > 0 =>
                IF i = 1 \/ call.log[i - 1] = 0 THEN call.log[i] = 1
                ELSE /\ call.log[i] <= 30
                     /\ call.log[i] = 2 * call.log[i - 1] \/ call.log[i] = 30
                     /\ call.log[i] = 30 => 2 * call.log[i - 1] >= 30
AttemptStarts == call.op = "connect" /\ call.pc # "connecting" /\ call'.pc = "connecting"

\* C22: the waits before reconnecting are 1, 2, 4, 8, 16, 30, 30, ... seconds
\* after consecutive errors, a connection made sets the next wait back to 1
\* second, and no connection attempt starts once disconnect was requested or
\* the task cancelled.
C22_ReconnectBackoff ==
    /\ []BackoffFollowed
    /\ [][AttemptStarts => ~call.disconnected /\ ~call.cancelled]_vars

\* Seven errors in a row with their waits, then a connection made; disconnect
\* was requested and the task has returned.
C22_Witness ==
    /\ call.op = "connect"
    /\ call.log = <<1, 2, 4, 8, 16, 30, 30, 0>>
    /\ call.disconnected
    /\ call.pc = "returned"

\* The words of a text: its maximal runs of characters that are no blanks.
WordStarts(t) ==
    {i \in 1..Len(t) : t[i] \notin Whitespace /\ (i = 1 \/ t[i - 1] \in Whitespace)}
Offset(k) == IF k = 1 THEN 0 ELSE
             IF k = 2 THEN 10 ELSE IF k = 3 THEN 22 ELSE IF k = 4 THEN 58 ELSE
             IF k = 5 THEN 68 ELSE IF k = 6 THEN 78 ELSE IF k = 7 THEN 128 ELSE
             IF k = 8 THEN 140 ELSE 154
Trailing(line) == SubSeq(line, Offset(9) + 1, Len(line))
MinOf(a, b) == IF a < b THEN a ELSE b

\* C23: the parser of a fixed-width job line returns exactly 11 fields for
\* every line: the eight fixed-width fields, then the words of the remainder,
\* three at most, then empty texts.
C23_ElevenFields ==
    call.op = "parse_squeue_output_line" /\ call.pc = "done" =>
        LET parts == result.value
            words == Cardinality(WordStarts(Trailing(call.line)))
        IN /\ Len(parts) = 11
           /\ \A k \in 1..8 :
                 parts[k] = strip(SubSeq(call.line, Offset(k) + 1,
                                         MinOf(Offset(k + 1), Len(call.line))))
           /\ \A k \in 9..11 : (parts[k] # <<>>) <=> (k - 8 <= MinOf(words, 3))

\* A line with five words after the fixed-width fields has been parsed, and
\* field 11 holds the third word and what follows it.
C23_Witness ==
    /\ call.op = "parse_squeue_output_line" /\ call.pc = "done"
    /\ Cardinality(WordStarts(Trailing(call.line))) = 5
    /\ result.value[9] = <<"2">>
    /\ result.value[11][1] = "("
    /\ Len(result.value[11]) > 11

\* C24: the GPU type of a TRES text is empty whenever the GPU count of the
\* same text is 0; it is the assumed type H100 when the count is more than 0
\* and the text names no type; and it is the named type, in upper case and
\* normalised, when the text names one.
C24_GpuType ==
    call.op = "parse_gpu" /\ call.pc = "done" =>
        LET count == decimal(result.value[1])
            type == result.value[2]
            named == TypedCount(call.tres_field)
        IN /\ count = 0 => type = <<>>
           /\ count > 0 /\ named = <<>> => type = H100
           /\ count > 0 /\ named # <<>> =>
                 \/ type = upper(named[1])
                 \/ type \in {H100, A100, V100} /\ str_in(type, upper(named[1]))

\* A text is blank: it has nothing but blanks; it names a keyword: a
\* pending-reason keyword is part of it.
Blank(t) == \A i \in 1..Len(t) : t[i] \in Whitespace
Keywords ==
    {<<"D", "e", "p", "e", "n", "d", "e", "n", "c", "y">>,
     <<"R", "e", "s", "o", "u", "r", "c", "e", "s">>,
     <<"P", "r", "i", "o", "r", "i", "t", "y">>,
     <<"Q", "O", "S", "M", "a", "x", "J", "o", "b", "s", "P", "e", "r", "U", "s", "e", "r", "L", "i", "m", "i", "t">>,
     <<"A", "s", "s", "o", "c", "M", "a", "x", "J", "o", "b", "s", "L", "i", "m", "i", "t">>}
NamesKeyword(t) == \E k \in Keywords : Contains(t, k)
Combined == call.op = "combine_nodelist_reason" /\ call.pc = "done"

\* C25: the display of (nodelist, reason) is the nodelist when it is not
\* blank and contains no pending-reason keyword; else the reason when it is
\* not blank and not "None"; else the nodelist when it is not blank; else the
\* empty text.
C25_NodelistReason ==
    Combined =>
        result.value =
            IF ~Blank(call.nodelist) /\ ~NamesKeyword(call.nodelist) THEN call.nodelist
            ELSE IF ~Blank(call.reason) /\ call.reason # <<"N", "o", "n", "e">>
            THEN call.reason
            ELSE IF ~Blank(call.nodelist) THEN call.nodelist
            ELSE <<>>

\* A nodelist that holds a keyword was combined with the reason "None", and
\* the nodelist is displayed.
C25_Witness ==
    /\ Combined
    /\ NamesKeyword(call.nodelist)
    /\ call.reason = <<"N", "o", "n", "e">>
    /\ result.value = call.nodelist

Counted == call.op = "count_nodes_from_nodelist" /\ call.pc = "done"
Tokens(t) == split(t, ",")
NonEmptyTokens(t) == Len(SelectSeq(Tokens(t), LAMBDA n : n # <<>>))
NonBlankTokens(t) == Len(SelectSeq(Tokens(t), LAMBDA n : ~Blank(n)))

\* C26 as stated: count_nodes_from_nodelist returns "0" for the empty or blank
\* text and for every text that is a pending-reason keyword, and otherwise the
\* number of non-empty tokens between commas.
C26_CountNodesOfKeyword ==
    Counted =>
        decimal(result.value) =
            IF Blank(call.nodelist) \/ call.nodelist \in Keywords THEN 0
            ELSE NonEmptyTokens(call.nodelist)

\* C26, amended: count_nodes_from_nodelist returns "0" for the empty or blank
\* text and for every text that contains a pending-reason keyword, and
\* otherwise the number of tokens between commas that are not blank, in
\* decimal digits.
C26_CountNodes ==
    Counted =>
        /\ result.value # <<>>
        /\ \A i \in 1..Len(result.value) : result.value[i] \in Digits
        /\ decimal(result.value) =
              IF Blank(call.nodelist) \/ NamesKeyword(call.nodelist) THEN 0
              ELSE NonBlankTokens(call.nodelist)

\* A text that holds a keyword among other characters has been counted: 0
\* nodes.
C26_Witness ==
    /\ Counted
    /\ NamesKeyword(call.nodelist)
    /\ call.nodelist \notin Keywords
    /\ result.value = <<"0">>

\* C27: load after a save returns the saved field values; load of a missing
\* file, or of a file that holds no settings document, returns the built-in
\* defaults; and load never raises.
C27_SettingsRoundTrip ==
    call.op = "config" /\ call.loaded =>
        /\ result.kind = "return"
        /\ call.last = "save" => result.value = call.saved
        /\ call.file.kind # "object" => result.value = Defaults

\* C28. A periodic output-refresh result is applied to the output panels only
\* for the job that is the selection at the moment of applying: an output load
\* started for job J whose result arrives after the selection changed to
\* another job leaves the panels as they are.
C28_StaleOutputRefreshDropped ==
    [][ \A w \in output_workers, o \in Outcomes :
            (OutputWorkerDone(w, o) /\ w.jobid # current_jobid) =>
                output_view' = output_view
      ]_vars

\* The list refresh cycles that are running refresh_data(), suspended at its
\* gather, and have not been cancelled.
RunningCycles ==
    (IF direct.pc = "gather" THEN 1 ELSE 0)
      + Cardinality({w \in LiveRefreshWorkers : w.pc = "gather"})

\* C29. At most one list refresh cycle (refresh_data) is in flight at any
\* time, whichever trigger requests it: the periodic tick, the refresh-now key,
\* the refresh after a successful cancel.
C29_OneCycleInFlight == RunningCycles <= 1

\* The number of job-inspection commands among the commands run.
Inspections == Cardinality({i \in 1..Len(commands) : commands[i] = ShowJob})

\* A load that went through its output step.
LoadComplete == call.op = "get_job_output" /\ call.pc = "done"

\* C30. A selection-triggered load issues exactly one job-inspection command:
\* detail and script are fetched first, and the output step resolves the paths
\* from the detail already fetched, without a second inspection.
C30_ExactlyOneInspection == LoadComplete => Inspections = 1

\* C30, amended. A load never issues more than one job-inspection command; a
\* load that went through its output step issued exactly one where scontrol is
\* installed and none where it is not, and the paths of its output step are
\* those of the detail text it fetched.
C30_OneInspectionAtMost ==
    /\ Inspections <= 1
    /\ LoadComplete =>
          /\ Inspections = (IF tools.scontrol THEN 1 ELSE 0)
          /\ call.arg.given
          /\ call.paths = get_job_output_paths(call.detail)

\* A load ran scontrol show job once, found both paths in its text and read
\* both files.
C30_Witness ==
    /\ LoadComplete
    /\ tools.scontrol
    /\ call.paths = <<"/o", "/e">>
    /\ commands = <<ShowJob, WriteScript, Tail_n("/o"), Tail_n("/e")>>

\* The column list of a get_jobs call that parsed an output.
ColsOf(c) == IF "rc2" \in DOMAIN c THEN basic_cols ELSE cols

\* The lines of output out that give a record under cs: the primary format
\* fills every line that is not blank up to eleven fields, the basic format
\* needs all but two of its columns.
Yielding(out, cs) ==
    {i \in 1..Len(out) :
        /\ out[i] # <<>>
        /\ cs = basic_cols => Len(out[i]) >= Len(cs) - 2}

\* The lines of out with a field for every column.
WellFormed(out, cs) == {i \in 1..Len(out) : Len(out[i]) = Len(cs)}

\* The number of yielding lines of out up to line i.
RankIn(out, cs, i) == Cardinality({j \in Yielding(out, cs) : j <= i})

\* A get_jobs call that returned the records of an output.
ListingParsed ==
    /\ call.op = "get_jobs" /\ call.pc = "done"
    /\ "out" \in DOMAIN call
    /\ result.kind = "return"

\* C31. One malformed row does not blank the listing: a line with too few
\* fields is skipped or padded with empty strings, and every well-formed line
\* of the same output gives its record in the returned list, in input order.
C31_BadRowSkippedOrPadded ==
    ListingParsed =>
        LET out == call.out
            cs == ColsOf(call)
            jobs == result.value
        IN /\ Len(jobs) = Cardinality(Yielding(out, cs))
           /\ WellFormed(out, cs) \subseteq Yielding(out, cs)
           /\ \A i \in Yielding(out, cs) :
                 LET row == jobs[RankIn(out, cs, i)]
                 IN \A k \in 1..Len(cs) :
                       row.cells[k] = IF k <= Len(out[i]) THEN out[i][k] ELSE ""

\* The basic format printed a line of seven fields before a line of ten: the
\* short line is skipped and the full one is the only record.
C31_Witness ==
    /\ ListingParsed
    /\ call.out = <<BasicShortLine, BasicLine>>
    /\ Len(result.value) = 1
    /\ result.value[1].cells[1] = "7"

\* A step that arms a confirmation: the pending job id becomes a job id it was
\* not before.
Armed == pending_cancel_jobid' # None /\ pending_cancel_jobid' # pending_cancel_jobid

\* C32. Confirming a cancel acts on the job id captured when the confirmation
\* was armed, whatever became of the cursor and of the table since: the id
\* armed is that of the row under the cursor at the arming, only a key press or
\* the end of a key handler changes it, and the confirming press clears it
\* and hands that very id to cancel_job, so one arming gives one cancel at most.
C32_ConfirmActsOnArmedJob ==
    [][ /\ Armed =>
              /\ Len(jobs_table') > 0
              /\ pending_cancel_jobid' = jobs_table'[cursor_row' + 1].jobid
        /\ pending_cancel_jobid' # pending_cancel_jobid =>
              KeyPressed \/ handler.pc \in {"cancel_job", "refresh"}
        /\ CancelInvoked =>
              /\ handler'.jobid = pending_cancel_jobid
              /\ pending_cancel_jobid' = None
        /\ (handler.pc = "cancel_job" /\ handler'.pc = "cancel_job") =>
              handler'.jobid = handler.jobid
      ]_vars

\* cancel_job runs for job 101, armed when its row was under the cursor; the
\* table listed anew since holds job 102 only.
C32_Witness ==
    /\ handler.pc = "cancel_job"
    /\ handler.jobid = "101"
    /\ jobs_table = <<Row("102", "RUNNING")>>

\* C33. In every reachable state, output_refresh_enabled implies that the user
\* wants real-time and that a job is selected; and every step that turns
\* real-time off leaves output_refresh_enabled false.
C33_EnabledImpliesWantedAndSelected ==
    /\ [](output_refresh_enabled => (user_wants_realtime /\ current_jobid # None))
    /\ [][ (user_wants_realtime /\ ~user_wants_realtime') =>
              ~output_refresh_enabled' ]_vars

\* Real-time was turned off with the toggle key while job 101 is selected.
C33_Witness ==
    /\ key_event.key = "t"
    /\ ~user_wants_realtime
    /\ current_jobid = "101"
    /\ ~output_refresh_enabled

\* A step of a list refresh cycle: a refresh worker runs refresh_data() from
\* its start to its end, or the refresh_data() that on_mount or on_key awaits
\* goes on (the end of action_refresh's cycle is the end of the key's handler,
\* where its binding runs too).
\* A worker's step is one that changes the workers without starting one (only
\* _schedule_refresh adds a worker, new or cancelled at once); a step of the
\* awaited refresh_data() changes the cycle the handler waits for.
CycleStep ==
    \/ /\ refresh_workers' # refresh_workers
       /\ \A w \in refresh_workers' \ refresh_workers : w.pc # "new"
    \/ /\ direct.pc = "gather"
       /\ direct' # direct
       /\ handler.then # "binding" \/ handler' = handler

LiveLoads == {w \in load_workers : ~w.cancelled}

\* A step in which load w resumes from one of its awaits.
LoadResumes(w) == \E o \in Outcomes : LoadDetailDone(w, o) \/ LoadOutputDone(w, o)

\* C35. What is shown for the selected job comes from the most recently
\* started selection load: a new selection supersedes every load in flight, so
\* one load at most is live and it is for the current selection, and a
\* superseded load, were it for the job that is selected again, leaves the
\* detail, the output and the status as they are when it resumes.
C35_SupersededLoadNeverApplied ==
    /\ [](/\ Cardinality(LiveLoads) <= 1
          /\ \A w \in LiveLoads : w.jobid = current_jobid)
    /\ [][ \A w \in load_workers :
              (w.cancelled /\ LoadResumes(w)) =>
                  UNCHANGED <<detail_view, output_view, status>>
         ]_vars

\* Job 101 was selected again while its first load waited for its detail: the
\* first load is superseded, the second one is about to run.
C35_Witness ==
    /\ current_jobid = "101"
    /\ \E w \in load_workers : w.cancelled /\ w.jobid = "101" /\ w.pc = "gather"
    /\ \E w \in LiveLoads : w.jobid = "101" /\ w.pc = "new"

\* C36. After a cancel is confirmed, a list refresh cycle is started if and
\* only if cancel_job reported success; when it reported a failure, the status
\* reports the failure of the cancel and the tables are left as they are.
C36_RefreshIffCancelSucceeded ==
    [][ \A success \in BOOLEAN :
            CancelJobDone(success) =>
                /\ (direct'.pc = "gather") <=> success
                /\ ~success =>
                      /\ status' = Msg("Failed to cancel job", handler.jobid)
                      /\ UNCHANGED <<jobs_table, nodes_table>>
      ]_vars

\* s is t with some of its members left out.
RECURSIVE IsSubsequence(_, _)
IsSubsequence(s, t) ==
    IF s = <<>> THEN TRUE
    ELSE IF t = <<>> THEN FALSE
    ELSE IF Head(s) = Head(t) THEN IsSubsequence(Tail(s), Tail(t))
    ELSE IsSubsequence(s, Tail(t))

\* A filter has been applied to a list of job records or of node records.
Filtered == call.op \in {"apply_jobs", "apply_nodes"} /\ call.pc = "done"
Again(op, f, rows) == IF op = "apply_jobs" THEN apply_jobs(f, rows) ELSE apply_nodes(f, rows)

\* C37. apply_jobs and apply_nodes are pure: the result is the input list with
\* some records left out, the others as they were and in their order; the
\* list and the filter handed in are after the call what they were before;
\* and the same filter applied to the result gives the result again.
C37_FilterIsPure ==
    /\ [](Filtered =>
             /\ result.kind = "return"
             /\ IsSubsequence(result.value, call.rows)
             /\ Again(call.op, call.filter, result.value) = result.value)
    /\ [][ (call.pc = "call" /\ call'.pc = "done") =>
               /\ call'.rows = call.rows
               /\ call'.filter = call.filter ]_vars

\* A filter with a user set kept two different job records of that user, in
\* the order they came in.
C37_Witness ==
    /\ Filtered
    /\ call.op = "apply_jobs"
    /\ IsSet(call.filter.user)
    /\ Len(result.value) = 2
    /\ result.value[1] # result.value[2]
    /\ result.value = call.rows

\* _format_gpu_bar has asked both parsers.
BarFormatted == call.op = "format_gpu_bar" /\ call.pc = "done"

\* C38. The two parsers of a node's GPU count agree: for every GRES field, the
\* number that SlurmDashboard._parse_gpu_count returns is the number that the
\* client's parse_node_gpu_info writes, suffixes in parentheses, a (null) type
\* and several resources with commas between them included.
C38_NodeGpuParsersAgree ==
    BarFormatted => result.value.total = decimal(result.value.gpu_info)

====
